---- MODULE Spec2Model ----
(***************************************************************************)
(* Model of the w101-client-go session client (proto/proto.go), its frame  *)
(* codec (proto/frame.go) and the control records it exchanges             *)
(* (proto/control/control.go).                                             *)
(*                                                                         *)
(* Every goroutine of the client is a process with a program counter; the  *)
(* three Go channels are bounded FIFO sequences with a "closed" flag.  A   *)
(* send on a closed channel, an out-of-range slice or index panics; a      *)
(* panic in any goroutine ends the whole process (no recover anywhere in   *)
(* the package), so once `panicked` is set no action is enabled.           *)
(***************************************************************************)
EXTENDS Integers, Sequences, FiniteSets, TLC

\* ---------------------------------------------------------------- bounds
\* Number of frames the peer sends on the connection.
MaxInbound == 3
\* Number of heartbeat ticker ticks.
MaxTicks == 1
\* Number of WriteMessage calls made by the application.
MaxSends == 1
\* Number of Close calls made by the application.
MaxUserClose == 1
\* Longest byte string (payload, body, plaintext) given to a codec on its own,
\* apart from the frames at the length boundary.
MaxPayload == 2
\* Number of frames the peer sends in a burst, more than a channel holds.
MaxBurst == 9
\* Number of tables in a table file.
MaxTables == 2
\* Number of middleware functions registered on a router.
MaxMiddleware == 2
\* Number of calls of RegisterMessageHandler on a router.
MaxRegistrations == 2

\* ------------------------------------------------------ program constants
\* make(chan *Frame, 8)
ChanCap == 8
\* const headerMagic uint16 = 0xF00D
headerMagic == 61453
PktSessionOffer == 0
PktSessionKeepAlive == 3
PktSessionKeepAliveRsp == 4
PktSessionAccept == 5
\* type messageRouter [255][]func(DMLMessage) error
RouterSlots == 255
\* if len(rawFrame) > 0x7FFF
shortMax == 32767
\* const ivConstant = 0xB6, const keyConstant = 0x17
ivConstant == 182
keyConstant == 23

\* ------------------------------------------------------------ byte helpers
\* binary.LittleEndian encodings of uint16 / uint32.
LE16(n) == <<n % 256, (n \div 256) % 256>>

LE32(n) == <<n % 256, (n \div 256) % 256, (n \div 65536) % 256, (n \div 16777216) % 256>>

\* binary.LittleEndian.Uint16 / Uint32 of the bytes of b starting at index i (1-based).
U16(b, i) == b[i] + 256 * b[i + 1]

U32(b, i) == b[i] + 256 * b[i + 1] + 65536 * b[i + 2] + 16777216 * b[i + 3]

Zeros(n) == [i \in 1..n |-> 0]

\* b[from:to] of Go, 0-based half-open, on a 1-based sequence.
Slice(b, from, to) == SubSeq(b, from + 1, to)

RECURSIVE Concat(_)
Concat(chunks) == IF chunks = <<>> THEN <<>> ELSE Head(chunks) \o Concat(Tail(chunks))

IsPrefix(s, t) == Len(s) <= Len(t) /\ SubSeq(t, 1, Len(s)) = s

\* ------------------------------------------------------------- frame codec
\* Frame.Marshal: 4-byte inner header (control flag, opcode, two reserved
\* zero bytes) followed by the payload.
FrameMarshal(f) ==
    <<(IF f.Control THEN 1 ELSE 0), f.Opcode, 0, 0>> \o f.MessageData

\* Frame.Unmarshal with a fault: it takes a body of 4 bytes.
FrameUnmarshal_MinFour(data) ==
    IF Len(data) < 4
    THEN [err |-> TRUE]
    ELSE [err |-> FALSE,
          frame |-> [Control |-> (data[1] = 1),
                     Opcode |-> data[2],
                     MessageData |-> Slice(data, 4, Len(data))]]

\* Frame.Unmarshal.
FrameUnmarshal(data) ==
    IF Len(data) < 5
    THEN [err |-> TRUE]
    ELSE [err |-> FALSE,
          frame |-> [Control |-> (data[1] = 1),
                     Opcode |-> data[2],
                     MessageData |-> Slice(data, 4, Len(data))]]

\* FrameWriter.Write: the successive writes it issues on the connection.
\* (Its refusal of frames longer than math.MaxUint32 cannot arise here: the
\* integers and sequences of the model stay below 2^31.)
WriteChunks(f) ==
    LET rawFrame == FrameMarshal(f)
        n == Len(rawFrame)
    IN  IF n > 32767
        THEN <<LE16(headerMagic), LE16(32768), LE32(n + 1), rawFrame, <<0>>>>
        ELSE <<LE16(headerMagic), LE16((n + 1) % 65536), rawFrame, <<0>>>>

\* The bytes one complete FrameWriter.Write puts on the wire.
EncodeFrame(f) == Concat(WriteChunks(f))

\* FrameReader.Read on the bytes s available before the stream ends: an
\* error when the magic is wrong, the stream ends early, or the body is
\* shorter than 5 bytes.
FrameRead(s) ==
    IF Len(s) < 2 THEN [err |-> TRUE]
    ELSE IF U16(s, 1) # headerMagic THEN [err |-> TRUE]
    ELSE IF Len(s) < 4 THEN [err |-> TRUE]
    ELSE LET length == U16(s, 3)
             long == length >= 32768
         IN  IF long /\ Len(s) < 8 THEN [err |-> TRUE]
             ELSE LET realLength == IF long THEN U32(s, 5) ELSE length
                      off == IF long THEN 8 ELSE 4
                  IN  IF Len(s) < off + realLength THEN [err |-> TRUE]
                      ELSE FrameUnmarshal(Slice(s, off, off + realLength))

\* FrameReader.Read: the length it computes for the body it is about to
\* read, from the bytes s that follow on the stream (-1: the header does not
\* decode).
ReadLength(s) ==
    IF Len(s) < 4 \/ U16(s, 1) # headerMagic THEN -1
    ELSE LET length == U16(s, 3)
         IN  IF length >= 32768
             THEN IF Len(s) < 8 THEN -1 ELSE U32(s, 5)
             ELSE length

\* ----------------------------------------------------------- control codec
\* SessionOffer.MarshalBinary (the peer's side of the handshake).
OfferMarshal(o) ==
    LE16(o.SessionID) \o Zeros(4) \o LE32(o.TimeSecs) \o LE32(o.TimeMillis)
    \o LE32(Len(o.RawMessage) + Len(o.Signature)) \o o.RawMessage \o o.Signature \o <<0>>

\* SessionOffer.UnmarshalBinary over a bytes.Reader: binary.Read fails when
\* fewer bytes remain than the field needs; Seek never fails; Reader.Read
\* fails only at the end of the data and otherwise fills what it can of a
\* zeroed buffer of msg_len bytes.
OfferUnmarshal(data) ==
    IF Len(data) < 18 THEN [err |-> TRUE]
    ELSE LET length == U32(data, 15)
         IN  IF Len(data) <= 18 THEN [err |-> TRUE]
             ELSE LET avail == Len(data) - 18
                      got == IF length < avail THEN length ELSE avail
                      msg == Slice(data, 18, 18 + got) \o Zeros(length - got)
                      split == Len(msg) > 256
                  IN  [err |-> FALSE,
                       SessionID |-> U16(data, 1),
                       TimeSecs |-> U32(data, 7),
                       TimeMillis |-> U32(data, 11),
                       RawMessage |-> IF split THEN Slice(msg, 0, Len(msg) - 256) ELSE <<>>,
                       Signature |-> IF split THEN Slice(msg, Len(msg) - 256, Len(msg)) ELSE <<>>]

\* SessionAccept.MarshalBinary: an empty encrypted message is sent as one
\* zero byte.
AcceptMarshal(a) ==
    LET enc == IF Len(a.EncryptedMessage) = 0 THEN <<0>> ELSE a.EncryptedMessage
    IN  Zeros(6) \o LE32(a.TimeSecs) \o LE32(a.TimeMillis) \o LE16(a.SessionID)
        \o LE32(Len(enc)) \o enc \o <<0>>

\* ClientKeepAlive.MarshalBinary.
ClientKeepAliveMarshal(k) ==
    LE16(k.SessionID) \o LE16(k.TimeMillis) \o LE16(k.SessionDurationMins)

\* ServerKeepAlive.MarshalBinary.
ServerKeepAliveMarshal(k) == LE16(k.SessionID) \o LE32(k.UptimeMillis)

\* KeepAliveRsp.MarshalBinary.
KeepAliveRspMarshal == <<>>

\* SessionAccept.UnmarshalBinary, over a bytes.Reader as for the offer.
AcceptUnmarshal(data) ==
    IF Len(data) < 20 THEN [err |-> TRUE]
    ELSE LET length == U32(data, 17)
         IN  IF Len(data) <= 20 THEN [err |-> TRUE]
             ELSE LET avail == Len(data) - 20
                      got == IF length < avail THEN length ELSE avail
                  IN  [err |-> FALSE,
                       TimeSecs |-> U32(data, 7),
                       TimeMillis |-> U32(data, 11),
                       SessionID |-> U16(data, 15),
                       EncryptedMessage |-> Slice(data, 20, 20 + got) \o Zeros(length - got)]

\* binary.Read of a uint16 / uint32 at offset off (0-based) whose error is
\* dropped: the field keeps its zero value when too few bytes remain.
ReadU16OrZero(data, off) == IF Len(data) >= off + 2 THEN U16(data, off + 1) ELSE 0

ReadU32OrZero(data, off) == IF Len(data) >= off + 4 THEN U32(data, off + 1) ELSE 0

\* ClientKeepAlive.UnmarshalBinary: always returns nil.
ClientKeepAliveUnmarshal(data) ==
    [err |-> FALSE,
     SessionID |-> ReadU16OrZero(data, 0),
     TimeMillis |-> ReadU16OrZero(data, 2),
     SessionDurationMins |-> ReadU16OrZero(data, 4)]

\* ServerKeepAlive.UnmarshalBinary: always returns nil.
ServerKeepAliveUnmarshal(data) ==
    [err |-> FALSE,
     SessionID |-> ReadU16OrZero(data, 0),
     UptimeMillis |-> ReadU32OrZero(data, 2)]

\* KeepAliveRsp.UnmarshalBinary: reads nothing, returns nil.
KeepAliveRspUnmarshal(data) == [err |-> FALSE]

\* --------------------------------------------------------------- DML codec
\* DMLMessage.Marshal.
DMLMarshal(d) ==
    <<d.ServiceID, d.OrderNumber>> \o LE16((2 + Len(d.Packet) + 2) % 65536) \o d.Packet

\* DMLMessage.Unmarshal: dataLen is a uint16 (wraps modulo 2^16) and is
\* compared with uint16(len(buf)); buf[4:dataLen] panics when dataLen < 4.
DMLUnmarshal(buf) ==
    IF Len(buf) < 4 THEN [res |-> "err"]
    ELSE LET dataLen == (U16(buf, 3) + 1) % 65536
         IN  IF dataLen > Len(buf) % 65536 THEN [res |-> "err"]
             ELSE IF dataLen < 4 THEN [res |-> "panic"]
             ELSE [res |-> "ok",
                   msg |-> [ServiceID |-> buf[1],
                            OrderNumber |-> buf[2],
                            Packet |-> Slice(buf, 4, dataLen)]]

\* ------------------------------------------------------------------ router
\* The calls of RegisterMessageHandler made before Dial, in order: two
\* handlers for (1, 1) and none elsewhere.
Registered ==
    << [service |-> 1, order |-> 1, fn |-> "h1"],
       [service |-> 1, order |-> 1, fn |-> "h2"] >>

\* router.serviceRoutes[service][order]: each registration appends its
\* handler to the list of its key.
serviceRoutes(service, order) ==
    LET IsFor(r) == r.service = service /\ r.order = order
        sel == SelectSeq(Registered, IsFor)
    IN  [i \in 1..Len(sel) |-> sel[i].fn]

\* Indexing the [255] arrays of the router with 255 is out of range.
RouteFault(service, order) == service >= RouterSlots \/ order >= RouterSlots

\* The service and order numbers registered and dispatched: one inside the
\* arrays, their last slot, and the largest value of a byte.
RouteKeys == {1, RouterSlots - 1, 255}

\* NewMessageRouter: every slot of serviceRoutes holds no handler.  Only the
\* slots of RouteKeys are represented.
NewMessageRouter ==
    [k \in { <<s, o>> \in RouteKeys \X RouteKeys : ~RouteFault(s, o) } |-> <<>>]

\* RegisterMessageHandler(router, service, order, handler): the decodeFunc
\* is appended to the list of the slot; indexing outside the arrays panics.
RegisterMessageHandler(routes, service, order, fn) ==
    IF RouteFault(service, order)
    THEN [fault |-> TRUE, routes |-> routes]
    ELSE [fault |-> FALSE,
          routes |-> [routes EXCEPT ![<<service, order>>] = Append(@, fn)]]

\* The registrations of a program, made one after the other on a new
\* router; a panic ends the program, so no later registration is made.
RECURSIVE RegisterAll(_)
RegisterAll(regs) ==
    IF regs = <<>> THEN [fault |-> FALSE, routes |-> NewMessageRouter]
    ELSE CHOOSE out \in
           { IF before.fault THEN before
             ELSE RegisterMessageHandler(before.routes, regs[Len(regs)].service,
                                         regs[Len(regs)].order, regs[Len(regs)].fn) :
               before \in {RegisterAll(SubSeq(regs, 1, Len(regs) - 1))} } : TRUE

\* The loop of MessageRouter.Handle over a list of handlers: each is called
\* in turn, and the first that returns an error ends the loop.  The handler
\* "bad" returns an error.
RECURSIVE HandleLoop(_)
HandleLoop(handlers) ==
    IF handlers = <<>> THEN [err |-> FALSE, calls |-> <<>>]
    ELSE IF Head(handlers) = "bad" THEN [err |-> TRUE, calls |-> <<Head(handlers)>>]
    ELSE CHOOSE out \in
           { [err |-> rest.err, calls |-> <<Head(handlers)>> \o rest.calls] :
               rest \in {HandleLoop(Tail(handlers))} } : TRUE

\* MessageRouter.Handle(service, order, d): indexing outside the arrays
\* panics; otherwise the handlers of the slot are called.
Handle(routes, service, order) ==
    IF RouteFault(service, order)
    THEN [fault |-> TRUE, err |-> FALSE, calls |-> <<>>]
    ELSE [fault |-> FALSE] @@ HandleLoop(routes[<<service, order>>])

\* The handleFunc RegisterMiddleware appends to router.middleware, for a
\* middleware declared for type `declared`: the assertion msg.(T) succeeds
\* for the type of the value and for any, and only then is the function of
\* the application called.
handleFunc(declared, msg) == declared \in {msg.type, "any"}

\* The decodeFunc of RegisterMessageHandler with a fault: the handler is
\* called before the middleware.
decodeFunc_HandlerFirst(d, decodes, middleware) ==
    LET msg == [type |-> "T", body |-> d.Packet]
        zero == [type |-> "T", body |-> <<>>]
    IN  IF ~decodes
        THEN [err |-> TRUE,
              calls |-> << [fn |-> "Unmarshal", i |-> 0, ran |-> TRUE, msg |-> zero] >>]
        ELSE [err |-> FALSE,
              calls |-> << [fn |-> "Unmarshal", i |-> 0, ran |-> TRUE, msg |-> zero],
                           [fn |-> "handler", i |-> 0, ran |-> TRUE, msg |-> msg] >>
                        \o [i \in 1..Len(middleware) |->
                              [fn |-> "middleware", i |-> i,
                               ran |-> handleFunc(middleware[i], msg), msg |-> msg]]]

\* The decodeFunc RegisterMessageHandler builds for a handler of type T,
\* called with the message d while router.middleware holds `middleware`:
\* the calls it makes, in order, and the error it returns.  dec.Unmarshal
\* (a method of the application's type) is called on a zero value and
\* either fails, and its error is returned, or fills the value; then every
\* element of router.middleware is called with the value, then the handler.
decodeFunc(d, decodes, middleware) ==
    LET msg == [type |-> "T", body |-> d.Packet]
        zero == [type |-> "T", body |-> <<>>]
    IN  IF ~decodes
        THEN [err |-> TRUE,
              calls |-> << [fn |-> "Unmarshal", i |-> 0, ran |-> TRUE, msg |-> zero] >>]
        ELSE [err |-> FALSE,
              calls |-> << [fn |-> "Unmarshal", i |-> 0, ran |-> TRUE, msg |-> zero] >>
                        \o [i \in 1..Len(middleware) |->
                              [fn |-> "middleware", i |-> i,
                               ran |-> handleFunc(middleware[i], msg), msg |-> msg]]
                        \o << [fn |-> "handler", i |-> 0, ran |-> TRUE, msg |-> msg] >>]

\* ------------------------------------------------------------- environment
\* The session offers the peer may send.
OfferA == [SessionID |-> 3258, TimeSecs |-> 1617815695, TimeMillis |-> 805,
           RawMessage |-> <<>>, Signature |-> <<>>]

OfferB == [SessionID |-> 2996, TimeSecs |-> 1620500010, TimeMillis |-> 834,
           RawMessage |-> <<>>, Signature |-> <<>>]

ControlFrame(op, data) == [Control |-> TRUE, Opcode |-> op, MessageData |-> data]

AppFrame(data) == [Control |-> FALSE, Opcode |-> 0, MessageData |-> data]

\* The frames the peer may send, by kind: well-formed and truncated offers,
\* a keep-alive, an accept echo, and a routed, an unrouted, a last-service
\* and an undecodable application message.  The k-th application message carries k as its body.
ServerFrame(kind, k) ==
    CASE kind = "offerA" -> ControlFrame(PktSessionOffer, OfferMarshal(OfferA))
      [] kind = "offerB" -> ControlFrame(PktSessionOffer, OfferMarshal(OfferB))
      [] kind = "badOffer" -> ControlFrame(PktSessionOffer, <<1, 2>>)
      [] kind = "keepAlive" ->
            ControlFrame(PktSessionKeepAlive,
                         ServerKeepAliveMarshal([SessionID |-> 3258, UptimeMillis |-> 1000]))
      [] kind = "accept" -> ControlFrame(PktSessionAccept, <<>>)
      [] kind = "app" ->
            AppFrame(DMLMarshal([ServiceID |-> 1, OrderNumber |-> 1, Packet |-> <<k>>]))
      [] kind = "appUnrouted" ->
            AppFrame(DMLMarshal([ServiceID |-> 1, OrderNumber |-> 2, Packet |-> <<k>>]))
      [] kind = "appEdge" ->
            AppFrame(DMLMarshal([ServiceID |-> 255, OrderNumber |-> 1, Packet |-> <<k>>]))
      [] kind = "appBad" -> AppFrame(<<k>>)

\* What the reader finds on the socket: an encoded frame of one of the
\* given kinds, or bytes whose magic is wrong.
InboundWire(kinds, k) ==
    { EncodeFrame(ServerFrame(kind, k)) : kind \in kinds } \cup { <<0, 0, 5, 0>> }

\* The kinds of frame the peer of run e may send after n frames.
PeerKinds(e, n) == IF e.last # "any" /\ n = e.in - 1 THEN {e.last} ELSE e.frames

\* The runs explored: what the peer may send and how many frames, and how
\* many ticks, WriteMessage calls and Close calls of the application occur.
\* A handshake with every control frame; a session with application
\* messages; a session in which every producer of writeMessageCh is active;
\* a session with a heartbeat and a second offer; a burst of keep-alives and
\* a burst of application messages, each longer than a channel, the latter
\* followed by the offer.  `last` is the kind of the last frame the peer
\* sends, when the run fixes it.
Envs ==
    { [frames |-> {"offerA", "offerB", "badOffer", "keepAlive", "accept"},
       in |-> MaxInbound, ticks |-> 0, sends |-> 0, closes |-> 0, last |-> "any"],
      [frames |-> {"offerA", "app", "appUnrouted", "appEdge", "appBad"},
       in |-> MaxInbound, ticks |-> 0, sends |-> 0, closes |-> MaxUserClose, last |-> "any"],
      [frames |-> {"offerA", "keepAlive"},
       in |-> MaxInbound - 1, ticks |-> MaxTicks, sends |-> MaxSends,
       closes |-> MaxUserClose, last |-> "any"],
      [frames |-> {"offerA", "offerB"},
       in |-> MaxInbound - 1, ticks |-> MaxTicks, sends |-> 0, closes |-> 0, last |-> "any"],
      [frames |-> {"keepAlive"},
       in |-> MaxBurst, ticks |-> 0, sends |-> 0, closes |-> 0, last |-> "any"],
      [frames |-> {"app"},
       in |-> MaxBurst + 1, ticks |-> 0, sends |-> 0, closes |-> 0, last |-> "offerA"] }

\* The messages the application sends.
UserMessages == { [ServiceID |-> 1, OrderNumber |-> 1, Packet |-> <<9>>] }

\* Wall-clock readings of the heartbeat (millisecond of the second, minutes
\* since the session started).
ClockMillis == { 250 }

ClockMins == { 0 }

NoFrame == [Control |-> FALSE, Opcode |-> 255, MessageData |-> <<>>]

NoSession == [ID |-> 0, TimeSecs |-> 0, TimeMillis |-> 0]

NoMsg == [ServiceID |-> 0, OrderNumber |-> 0, Packet |-> <<>>]

\* ------------------------------------------------------------------- state
\* A goroutine that is inside Close, after closeOnce.Do returned and before
\* c.conn.Close(), is at "conn".
VARIABLES
    env,             \* the run explored (fixed by Init)
    connOpen,        \* c.conn is open
    connCloseCalls,  \* number of calls of c.conn.Close()
    readControlCh,   \* buffered contents of the three channels
    readMessageCh,
    writeMessageCh,
    chClosed,        \* which channels close() was called on
    closeCount,      \* how many times close() was called on each channel
    tickerStopped,   \* c.sessionHeartbeat.Stop() was called
    onceDone,        \* c.closeOnce has run its function
    session,         \* c.session (ID, TimeSecs, TimeMillis)
    connected,       \* c.connected
    ctxDone,         \* the context passed to Dial is cancelled
    dialRet,         \* what Dial returned: "pending", "client", "closed", "cancelled"
    dialSession,     \* c.session when Dial returned the client
    rPc,             \* read goroutine: "read", "conn", "done"
    wPc,             \* write goroutine: "recv", "conn", "done"
    hsPc, hsFrame,   \* handshake on the caller's goroutine: "select", "handle", "done"
    hsFirst,         \* history: opcode of the first frame handshake received (-1: none)
    hsLate,          \* history: handshake took a frame after ctx was done
    ctlPc, ctlFrame, \* handleControl goroutine: "none", "recv", "handle", "done"
    hbPc, hbFrame,   \* heartbeat goroutine: "none", "wait", "send"
    dPc, dMsg, dIdx, \* handleMessages goroutine: "none", "recv", "call", "run",
                     \* "conn", "done"; dIdx: index of the handler
    userConn,        \* application Close calls that are before c.conn.Close()
    nUserClose,      \* application Close calls started
    panicked,        \* "none", or the goroutine whose panic ended the process
    writeRet,        \* results of the WriteMessage calls
    nRead, nApp, nTicks,   \* frames read, application frames read, ticks
    enqueued,        \* history: every frame sent on writeMessageCh, in order
    sockOut,         \* history: every byte written to the socket
    flips,           \* history: times c.connected went from false to true
    log,             \* history: handler calls and returns of handleMessages
    dispatched,      \* history: the messages passed to router.Handle, in order
    seen,            \* history: the messages the any-typed middleware observed
    pOp,             \* the codec or login function exercised on its own ("none": the client runs)
    pIn,             \* its input
    pMid,            \* the bytes its encoder produced
    pOut,            \* what its decoder returned
    pPc,             \* "in", "wire" (encoded), "out" (decoded)
    cipher           \* the keystream the Twofish OFB stream yields for a (key, iv)

connVars == <<connOpen, connCloseCalls>>

closeVars == <<chClosed, closeCount, tickerStopped, onceDone>>

sessVars == <<session, connected, flips>>

dialVars == <<dialRet, dialSession>>

readerVars == <<rPc, nRead, nApp>>

writerVars == <<wPc, sockOut>>

hsVars == <<hsPc, hsFrame, hsFirst, hsLate>>

ctlVars == <<ctlPc, ctlFrame>>

hbVars == <<hbPc, hbFrame, nTicks>>

dispVars == <<dPc, dMsg, dIdx, log, dispatched, seen>>

userVars == <<userConn, nUserClose, writeRet>>

outVars == <<writeMessageCh, enqueued>>

inVars == <<readControlCh, readMessageCh>>

pureVars == <<pOp, pIn, pMid, pOut, pPc, cipher>>

vars == <<env, pureVars, connVars, closeVars, sessVars, dialVars, readerVars, writerVars, hsVars,
          ctlVars, hbVars, dispVars, userVars, outVars, inVars, ctxDone, panicked>>

\* Dial has connected, built the Client and started read and write; the
\* caller is about to run handshake.
ClientStart(e) ==
    /\ env = e
    /\ connOpen = TRUE /\ connCloseCalls = 0
    /\ readControlCh = <<>> /\ readMessageCh = <<>> /\ writeMessageCh = <<>>
    /\ chClosed = [c |-> FALSE, m |-> FALSE, w |-> FALSE]
    /\ closeCount = [c |-> 0, m |-> 0, w |-> 0]
    /\ tickerStopped = FALSE /\ onceDone = FALSE
    /\ session = NoSession /\ connected = FALSE
    /\ ctxDone = FALSE /\ dialRet = "pending" /\ dialSession = NoSession
    /\ rPc = "read"
    /\ wPc = "recv"
    /\ hsPc = "select" /\ hsFrame = NoFrame /\ hsFirst = -1 /\ hsLate = FALSE
    /\ ctlPc = "none" /\ ctlFrame = NoFrame
    /\ hbPc = "none" /\ hbFrame = NoFrame
    /\ dPc = "none" /\ dMsg = NoMsg /\ dIdx = 0
    /\ userConn = 0 /\ nUserClose = 0
    /\ panicked = "none"
    /\ writeRet = <<>>
    /\ nRead = 0 /\ nApp = 0 /\ nTicks = 0
    /\ enqueued = <<>> /\ sockOut = <<>> /\ flips = 0 /\ log = <<>>
    /\ dispatched = <<>> /\ seen = <<>>

\* No codec or login function is exercised on its own.
PureIdle ==
    /\ pOp = "none" /\ pPc = "in"
    /\ pIn = <<>> /\ pMid = <<>> /\ pOut = [err |-> FALSE]
    /\ cipher = <<>>

Init == \E e \in Envs : ClientStart(e) /\ PureIdle

Running == panicked = "none"

\* ------------------------------------------------------------------- Close
\* The function Close passes to closeOnce.Do: stop the ticker and close the
\* three channels.  sync.Once runs it for the first caller only and holds
\* every other caller until it has returned; it has no blocking operation.
closeOnceBody ==
    IF onceDone
    THEN UNCHANGED closeVars
    ELSE /\ onceDone' = TRUE
         /\ tickerStopped' = TRUE
         /\ chClosed' = [c |-> TRUE, m |-> TRUE, w |-> TRUE]
         /\ closeCount' = [c |-> closeCount.c + 1, m |-> closeCount.m + 1,
                           w |-> closeCount.w + 1]

\* return c.conn.Close(): called by every Close, outside closeOnce.
connClose ==
    /\ connCloseCalls' = connCloseCalls + 1
    /\ connOpen' = FALSE

\* Close called by the application on the client Dial returned.
UserCloseOnce ==
    /\ Running
    /\ UNCHANGED <<env, pureVars>>
    /\ dialRet = "client"
    /\ nUserClose < env.closes
    /\ closeOnceBody
    /\ nUserClose' = nUserClose + 1
    /\ userConn' = userConn + 1
    /\ UNCHANGED <<connVars, sessVars, dialVars, readerVars, writerVars, hsVars, ctlVars,
                   hbVars, dispVars, writeRet, outVars, inVars, ctxDone, panicked>>

UserCloseConn ==
    /\ Running
    /\ UNCHANGED <<env, pureVars>>
    /\ userConn > 0
    /\ connClose
    /\ userConn' = userConn - 1
    /\ UNCHANGED <<closeVars, sessVars, dialVars, readerVars, writerVars, hsVars, ctlVars,
                   hbVars, dispVars, nUserClose, writeRet, outVars, inVars, ctxDone,
                   panicked>>

\* -------------------------------------------------------------------- read
\* read with a fault: the send does not wait for room on the channel.
read_NoBackPressure ==
    /\ Running
    /\ UNCHANGED <<env, pureVars>>
    /\ rPc = "read"
    /\ nRead < env.in
    /\ \E w \in InboundWire(PeerKinds(env, nRead), nApp + 1) :
          LET r == FrameRead(w)
          IN  /\ ~r.err
              /\ IF r.frame.Control
                 THEN IF chClosed.c
                      THEN /\ panicked' = "reader" /\ connClose
                           /\ UNCHANGED <<inVars, nRead, nApp>>
                      ELSE /\ readControlCh' = Append(readControlCh, r.frame)
                           /\ nRead' = nRead + 1
                           /\ UNCHANGED <<readMessageCh, nApp, panicked, connVars>>
                 ELSE IF chClosed.m
                      THEN /\ panicked' = "reader" /\ connClose
                           /\ UNCHANGED <<inVars, nRead, nApp>>
                      ELSE /\ readMessageCh' = Append(readMessageCh, r.frame)
                           /\ nRead' = nRead + 1
                           /\ nApp' = nApp + 1
                           /\ UNCHANGED <<readControlCh, panicked, connVars>>
    /\ UNCHANGED <<closeVars, sessVars, dialVars, rPc, writerVars, hsVars, ctlVars, hbVars,
                   dispVars, userVars, outVars, ctxDone>>

\* One turn of the loop of read with a frame: c.frameRW.Read() returns the
\* frame the peer sent while the socket was open (the goroutine waits in
\* Read from the moment it last sent, when the socket was open), and the
\* frame is sent on readControlCh or readMessageCh.  The send waits while
\* the channel is full and panics once it is closed; the deferred Close
\* then runs (closeOnce has already run) before the process ends.
read ==
    /\ Running
    /\ UNCHANGED <<env, pureVars>>
    /\ rPc = "read"
    /\ nRead < env.in
    /\ \E w \in InboundWire(PeerKinds(env, nRead), nApp + 1) :
          LET r == FrameRead(w)
          IN  /\ ~r.err
              /\ IF r.frame.Control
                 THEN IF chClosed.c
                      THEN /\ panicked' = "reader" /\ connClose
                           /\ UNCHANGED <<inVars, nRead, nApp>>
                      ELSE /\ Len(readControlCh) < ChanCap
                           /\ readControlCh' = Append(readControlCh, r.frame)
                           /\ nRead' = nRead + 1
                           /\ UNCHANGED <<readMessageCh, nApp, panicked, connVars>>
                 ELSE IF chClosed.m
                      THEN /\ panicked' = "reader" /\ connClose
                           /\ UNCHANGED <<inVars, nRead, nApp>>
                      ELSE /\ Len(readMessageCh) < ChanCap
                           /\ readMessageCh' = Append(readMessageCh, r.frame)
                           /\ nRead' = nRead + 1
                           /\ nApp' = nApp + 1
                           /\ UNCHANGED <<readControlCh, panicked, connVars>>
    /\ UNCHANGED <<closeVars, sessVars, dialVars, rPc, writerVars, hsVars, ctlVars, hbVars,
                   dispVars, userVars, outVars, ctxDone>>

\* read with a fault: on a Read error it returns without closing the client.
readFail_NoClose ==
    /\ Running
    /\ UNCHANGED <<env, pureVars>>
    /\ rPc = "read"
    /\ \/ ~connOpen
       \/ nRead = env.in
       \/ \E w \in InboundWire(PeerKinds(env, nRead), nApp + 1) : FrameRead(w).err
    /\ rPc' = "done"
    /\ UNCHANGED <<closeVars, connVars, sessVars, dialVars, nRead, nApp, writerVars, hsVars,
                   ctlVars, hbVars, dispVars, userVars, outVars, inVars, ctxDone, panicked>>

\* c.frameRW.Read() fails: the socket is closed, the peer ended the stream,
\* or what it sent is no frame.  read returns and its deferred Close runs
\* closeOnce.
readFail ==
    /\ Running
    /\ UNCHANGED <<env, pureVars>>
    /\ rPc = "read"
    /\ \/ ~connOpen
       \/ nRead = env.in
       \/ \E w \in InboundWire(PeerKinds(env, nRead), nApp + 1) : FrameRead(w).err
    /\ closeOnceBody
    /\ rPc' = "conn"
    /\ UNCHANGED <<connVars, sessVars, dialVars, nRead, nApp, writerVars, hsVars, ctlVars,
                   hbVars, dispVars, userVars, outVars, inVars, ctxDone, panicked>>

\* The deferred Close of read closes the socket; the goroutine ends.
readClose ==
    /\ Running
    /\ UNCHANGED <<env, pureVars>>
    /\ rPc = "conn"
    /\ connClose
    /\ rPc' = "done"
    /\ UNCHANGED <<closeVars, sessVars, dialVars, nRead, nApp, writerVars, hsVars, ctlVars,
                   hbVars, dispVars, userVars, outVars, inVars, ctxDone, panicked>>

\* ------------------------------------------------------------------- write
\* The loop of write with a fault: it takes the newest frame of the queue.
writeNext_Newest == writeMessageCh[Len(writeMessageCh)]

\* for frame := range c.writeMessageCh: the frame the loop takes next.
writeNext == Head(writeMessageCh)

\* One turn of the loop of write: FrameWriter.Write issues its writes in
\* order on the socket, which only this goroutine writes.  All succeed, or
\* one fails (the first, on a closed socket) after `k` succeeded; then
\* write returns and its deferred Close runs closeOnce.
write ==
    /\ Running
    /\ UNCHANGED <<env, pureVars>>
    /\ wPc = "recv"
    /\ writeMessageCh # <<>>
    /\ writeMessageCh' = Tail(writeMessageCh)
    /\ LET chunks == WriteChunks(writeNext)
       IN  \E k \in 0..Len(chunks) :
              /\ k > 0 => connOpen
              /\ sockOut' = sockOut \o Concat(SubSeq(chunks, 1, k))
              /\ IF k = Len(chunks)
                 THEN UNCHANGED <<wPc, closeVars>>
                 ELSE wPc' = "conn" /\ closeOnceBody
    /\ UNCHANGED <<connVars, sessVars, dialVars, readerVars, hsVars, ctlVars, hbVars,
                   dispVars, userVars, enqueued, inVars, ctxDone, panicked>>

\* The loop of write ends: the channel is closed and drained.  The deferred
\* Close finds closeOnce already run.
writeEnd ==
    /\ Running
    /\ UNCHANGED <<env, pureVars>>
    /\ wPc = "recv"
    /\ writeMessageCh = <<>> /\ chClosed.w
    /\ closeOnceBody
    /\ wPc' = "conn"
    /\ UNCHANGED <<connVars, sessVars, dialVars, readerVars, sockOut, hsVars, ctlVars,
                   hbVars, dispVars, userVars, outVars, inVars, ctxDone, panicked>>

\* The deferred Close of write closes the socket; the goroutine ends.
writeClose ==
    /\ Running
    /\ UNCHANGED <<env, pureVars>>
    /\ wPc = "conn"
    /\ connClose
    /\ wPc' = "done"
    /\ UNCHANGED <<closeVars, sessVars, dialVars, readerVars, sockOut, hsVars, ctlVars,
                   hbVars, dispVars, userVars, outVars, inVars, ctxDone, panicked>>

\* ------------------------------------------------------ handleControlFrame
\* handleSessionKeepAlive: the reply it sends.
KeepAliveRspFrame == ControlFrame(PktSessionKeepAliveRsp, KeepAliveRspMarshal)

\* handleSessionOffer: the accept it sends for a decoded offer.
AcceptFrame(offer) ==
    ControlFrame(PktSessionAccept,
                 AcceptMarshal([TimeSecs |-> offer.TimeSecs,
                                TimeMillis |-> offer.TimeMillis,
                                SessionID |-> offer.SessionID,
                                EncryptedMessage |-> <<>>]))

\* handleSessionOffer: the session it stores for a decoded offer.
OfferSession(offer) ==
    [ID |-> offer.SessionID, TimeSecs |-> offer.TimeSecs, TimeMillis |-> offer.TimeMillis]

\* The switch of handleControlFrame with a fault: a keep-alive is ignored.
ControlEffect_IgnoresKeepAlive(frame) ==
    IF frame.Opcode = PktSessionOffer
    THEN LET offer == OfferUnmarshal(frame.MessageData)
         IN  IF offer.err
             THEN [kind |-> "none"]
             ELSE [kind |-> "accept", out |-> AcceptFrame(offer),
                   session |-> OfferSession(offer)]
    ELSE [kind |-> "none"]

\* The switch of handleControlFrame: what the frame makes the client do.
\* A keep-alive is answered, an offer that decodes is accepted, an offer that
\* does not decode, an accept and any other opcode are ignored.
ControlEffect(frame) ==
    IF frame.Opcode = PktSessionKeepAlive
    THEN [kind |-> "reply", out |-> KeepAliveRspFrame]
    ELSE IF frame.Opcode = PktSessionOffer
    THEN LET offer == OfferUnmarshal(frame.MessageData)
         IN  IF offer.err
             THEN [kind |-> "none"]
             ELSE [kind |-> "accept", out |-> AcceptFrame(offer),
                   session |-> OfferSession(offer)]
    ELSE [kind |-> "none"]

\* handleControlFrame with a fault: a control frame that is not accepted
\* clears c.connected.
handleControlFrame_ClearsConnected(task, frame) ==
    LET e == ControlEffect(frame)
    IN  IF e.kind = "none"
        THEN /\ connected' = FALSE
             /\ UNCHANGED <<outVars, session, flips, panicked>>
        ELSE IF chClosed.w
        THEN /\ panicked' = task
             /\ UNCHANGED <<outVars, sessVars>>
        ELSE /\ Len(writeMessageCh) < ChanCap
             /\ writeMessageCh' = Append(writeMessageCh, e.out)
             /\ enqueued' = Append(enqueued, e.out)
             /\ UNCHANGED panicked
             /\ IF e.kind = "accept"
                THEN /\ connected' = TRUE
                     /\ session' = e.session
                     /\ flips' = IF connected THEN flips ELSE flips + 1
                ELSE UNCHANGED sessVars

\* handleControlFrame run by goroutine `task`: the send on writeMessageCh
\* waits while the channel is full and panics when it is closed; after the
\* accept is sent, connected and session are set.
handleControlFrame(task, frame) ==
    LET e == ControlEffect(frame)
    IN  IF e.kind = "none"
        THEN UNCHANGED <<outVars, sessVars, panicked>>
        ELSE IF chClosed.w
        THEN /\ panicked' = task
             /\ UNCHANGED <<outVars, sessVars>>
        ELSE /\ Len(writeMessageCh) < ChanCap
             /\ writeMessageCh' = Append(writeMessageCh, e.out)
             /\ enqueued' = Append(enqueued, e.out)
             /\ UNCHANGED panicked
             /\ IF e.kind = "accept"
                THEN /\ connected' = TRUE
                     /\ session' = e.session
                     /\ flips' = IF connected THEN flips ELSE flips + 1
                ELSE UNCHANGED sessVars

\* --------------------------------------------------------- Dial, handshake
\* select in handshake, case frame, ok := <-c.readControlCh with ok true.
handshakeRecv ==
    /\ Running
    /\ UNCHANGED <<env, pureVars>>
    /\ hsPc = "select"
    /\ readControlCh # <<>>
    /\ hsFrame' = Head(readControlCh)
    /\ hsFirst' = IF hsFirst = -1 THEN Head(readControlCh).Opcode ELSE hsFirst
    /\ hsLate' = (hsLate \/ ctxDone)
    /\ readControlCh' = Tail(readControlCh)
    /\ hsPc' = "handle"
    /\ UNCHANGED <<connVars, closeVars, sessVars, dialVars, readerVars, writerVars, ctlVars,
                   hbVars, dispVars, userVars, outVars, readMessageCh, ctxDone, panicked>>

\* select in handshake, ok false: the channel is closed and empty.  Dial
\* returns the error.
handshakeClosed ==
    /\ Running
    /\ UNCHANGED <<env, pureVars>>
    /\ hsPc = "select"
    /\ readControlCh = <<>> /\ chClosed.c
    /\ hsPc' = "done"
    /\ dialRet' = "closed"
    /\ UNCHANGED <<connVars, closeVars, sessVars, dialSession, readerVars, writerVars,
                   hsFrame, hsFirst, hsLate, ctlVars, hbVars, dispVars, userVars, outVars, inVars,
                   ctxDone, panicked>>

\* The cancellation branch with a fault: handshake returns nil instead of
\* ctx.Err(), so Dial starts handleControl and handleMessages and returns
\* the client.
handshakeCancelled_ReturnsNil ==
    /\ Running
    /\ UNCHANGED <<env, pureVars>>
    /\ hsPc = "select"
    /\ ctxDone
    /\ hsPc' = "done"
    /\ dialRet' = "client"
    /\ ctlPc' = "recv"
    /\ dPc' = "recv"
    /\ UNCHANGED <<connVars, closeVars, sessVars, dialSession, readerVars, writerVars,
                   hsFrame, hsFirst, hsLate, ctlFrame, hbVars, dMsg, dIdx, log, dispatched, seen,
                   userVars, outVars,
                   inVars, ctxDone, panicked>>

\* select in handshake, case <-ctx.Done().  Dial returns the error.
handshakeCancelled ==
    /\ Running
    /\ UNCHANGED <<env, pureVars>>
    /\ hsPc = "select"
    /\ ctxDone
    /\ hsPc' = "done"
    /\ dialRet' = "cancelled"
    /\ UNCHANGED <<connVars, closeVars, sessVars, dialSession, readerVars, writerVars,
                   hsFrame, hsFirst, hsLate, ctlVars, hbVars, dispVars, userVars, outVars, inVars,
                   ctxDone, panicked>>

\* handshake with a fault: a frame that is not an offer makes it return an
\* error, which Dial returns.
handshakeHandle_FailsOnOtherFrame ==
    /\ Running
    /\ UNCHANGED <<env, pureVars>>
    /\ hsPc = "handle"
    /\ IF hsFrame.Opcode # PktSessionOffer
       THEN /\ hsPc' = "done" /\ hsFrame' = NoFrame
            /\ dialRet' = "closed"
            /\ UNCHANGED <<outVars, sessVars, panicked, dialSession, hbPc, ctlPc, dPc>>
       ELSE /\ handleControlFrame("handshake", hsFrame)
            /\ IF panicked' # "none"
               THEN UNCHANGED <<hsPc, hsFrame, dialVars, hbPc, ctlPc, dPc>>
               ELSE /\ hsFrame' = NoFrame
                    /\ IF connected'
                       THEN /\ hsPc' = "done"
                            /\ hbPc' = "wait"
                            /\ ctlPc' = "recv"
                            /\ dPc' = "recv"
                            /\ dialRet' = "client"
                            /\ dialSession' = session'
                       ELSE /\ hsPc' = "select"
                            /\ UNCHANGED <<dialVars, hbPc, ctlPc, dPc>>
    /\ UNCHANGED <<connVars, closeVars, readerVars, writerVars, hsFirst, hsLate, ctlFrame,
                   hbFrame, nTicks, dMsg, dIdx, log, dispatched, seen,
                   userVars, inVars, ctxDone>>

\* c.handleControlFrame(frame) in handshake, then the test of c.connected:
\* when set, heartbeat is started, handshake returns nil, and Dial starts
\* handleControl and handleMessages and returns the client.
handshakeHandle ==
    /\ Running
    /\ UNCHANGED <<env, pureVars>>
    /\ hsPc = "handle"
    /\ handleControlFrame("handshake", hsFrame)
    /\ IF panicked' # "none"
       THEN UNCHANGED <<hsPc, hsFrame, dialVars, hbPc, ctlPc, dPc>>
       ELSE /\ hsFrame' = NoFrame
            /\ IF connected'
               THEN /\ hsPc' = "done"
                    /\ hbPc' = "wait"
                    /\ ctlPc' = "recv"
                    /\ dPc' = "recv"
                    /\ dialRet' = "client"
                    /\ dialSession' = session'
               ELSE /\ hsPc' = "select"
                    /\ UNCHANGED <<dialVars, hbPc, ctlPc, dPc>>
    /\ UNCHANGED <<connVars, closeVars, readerVars, writerVars, hsFirst, hsLate, ctlFrame,
                   hbFrame, nTicks, dMsg, dIdx, log, dispatched, seen,
                   userVars, inVars, ctxDone>>

\* The caller cancels the context given to Dial.
ctxCancel ==
    /\ Running
    /\ UNCHANGED <<env, pureVars>>
    /\ ~ctxDone
    /\ dialRet = "pending"
    /\ ctxDone' = TRUE
    /\ UNCHANGED <<connVars, closeVars, sessVars, dialVars, readerVars, writerVars, hsVars,
                   ctlVars, hbVars, dispVars, userVars, outVars, inVars, panicked>>

\* ----------------------------------------------------------- handleControl
\* for frame := range c.readControlCh.
handleControlRecv ==
    /\ Running
    /\ UNCHANGED <<env, pureVars>>
    /\ ctlPc = "recv"
    /\ IF readControlCh # <<>>
       THEN /\ ctlFrame' = Head(readControlCh)
            /\ readControlCh' = Tail(readControlCh)
            /\ ctlPc' = "handle"
       ELSE /\ chClosed.c
            /\ ctlPc' = "done"
            /\ UNCHANGED <<ctlFrame, readControlCh>>
    /\ UNCHANGED <<connVars, closeVars, sessVars, dialVars, readerVars, writerVars, hsVars,
                   hbVars, dispVars, userVars, outVars, readMessageCh, ctxDone, panicked>>

handleControlHandle ==
    /\ Running
    /\ UNCHANGED <<env, pureVars>>
    /\ ctlPc = "handle"
    /\ handleControlFrame("control", ctlFrame)
    /\ IF panicked' # "none"
       THEN UNCHANGED ctlVars
       ELSE ctlPc' = "recv" /\ ctlFrame' = NoFrame
    /\ UNCHANGED <<connVars, closeVars, dialVars, readerVars, writerVars, hsVars, hbVars,
                   dispVars, userVars, inVars, ctxDone>>

\* --------------------------------------------------------------- heartbeat
\* for range c.sessionHeartbeat.C: the ticker fires and the loop receives
\* the tick (since Go 1.23, the version of go.mod, no tick is received once
\* Stop has returned); the keep-alive is built from c.session.ID and the
\* clock.
heartbeatTick ==
    /\ Running
    /\ UNCHANGED <<env, pureVars>>
    /\ hbPc = "wait"
    /\ ~tickerStopped
    /\ nTicks < env.ticks
    /\ nTicks' = nTicks + 1
    /\ \E ms \in ClockMillis, mins \in ClockMins :
          hbFrame' = ControlFrame(PktSessionKeepAlive,
                                  ClientKeepAliveMarshal([SessionID |-> session.ID,
                                                          TimeMillis |-> ms,
                                                          SessionDurationMins |-> mins]))
    /\ hbPc' = "send"
    /\ UNCHANGED <<connVars, closeVars, sessVars, dialVars, readerVars, writerVars, hsVars,
                   ctlVars, dispVars, userVars, outVars, inVars, ctxDone, panicked>>

\* c.writeMessageCh <- keep-alive frame.
heartbeatSend ==
    /\ Running
    /\ UNCHANGED <<env, pureVars>>
    /\ hbPc = "send"
    /\ IF chClosed.w
       THEN /\ panicked' = "heartbeat"
            /\ UNCHANGED <<outVars, hbPc, hbFrame>>
       ELSE /\ Len(writeMessageCh) < ChanCap
            /\ writeMessageCh' = Append(writeMessageCh, hbFrame)
            /\ enqueued' = Append(enqueued, hbFrame)
            /\ hbPc' = "wait" /\ hbFrame' = NoFrame
            /\ UNCHANGED panicked
    /\ UNCHANGED <<connVars, closeVars, sessVars, dialVars, readerVars, writerVars, hsVars,
                   ctlVars, nTicks, dispVars, userVars, inVars, ctxDone>>

\* ---------------------------------------------------------- handleMessages
\* The loop of handleMessages with a fault: it takes the newest frame.
messageNext_Newest == readMessageCh[Len(readMessageCh)]

\* for frame := range c.readMessageCh: the frame the loop takes next.
messageNext == Head(readMessageCh)

\* One turn of the loop of handleMessages, then dmlMessage.Unmarshal: a frame
\* that does not decode makes handleMessages return (without Close); the
\* slice expression of Unmarshal and the router's array index may panic.
handleMessagesRecv ==
    /\ Running
    /\ UNCHANGED <<env, pureVars>>
    /\ dPc = "recv"
    /\ IF readMessageCh # <<>>
       THEN /\ readMessageCh' = Tail(readMessageCh)
            /\ LET r == DMLUnmarshal(messageNext.MessageData)
               IN  IF r.res = "err"
                   THEN /\ dPc' = "done"
                        /\ UNCHANGED <<dMsg, dIdx, panicked, dispatched>>
                   ELSE IF r.res = "panic"
                   THEN /\ panicked' = "dispatch"
                        /\ UNCHANGED <<dPc, dMsg, dIdx, dispatched>>
                   ELSE /\ dispatched' = Append(dispatched, r.msg)
                        /\ IF RouteFault(r.msg.ServiceID, r.msg.OrderNumber)
                           THEN /\ panicked' = "dispatch"
                                /\ UNCHANGED <<dPc, dMsg, dIdx>>
                           ELSE IF serviceRoutes(r.msg.ServiceID, r.msg.OrderNumber) = <<>>
                           THEN UNCHANGED <<dPc, dMsg, dIdx, panicked>>
                           ELSE /\ dPc' = "call"
                                /\ dMsg' = r.msg
                                /\ dIdx' = 1
                                /\ UNCHANGED panicked
       ELSE /\ chClosed.m
            /\ dPc' = "done"
            /\ UNCHANGED <<readMessageCh, dMsg, dIdx, panicked, dispatched>>
    /\ UNCHANGED <<connVars, closeVars, sessVars, dialVars, readerVars, writerVars, hsVars,
                   ctlVars, hbVars, log, seen, userVars, outVars, readControlCh, ctxDone>>

\* MessageRouter.Handle calls the next handler registered for the key.
routerCall ==
    /\ Running
    /\ UNCHANGED <<env, pureVars>>
    /\ dPc = "call"
    /\ log' = Append(log, [ev |-> "call", h |-> dIdx, pkt |-> dMsg.Packet,
                            key |-> <<dMsg.ServiceID, dMsg.OrderNumber>>,
                            fn |-> serviceRoutes(dMsg.ServiceID, dMsg.OrderNumber)[dIdx]])
    /\ dPc' = "run"
    /\ UNCHANGED <<connVars, closeVars, sessVars, dialVars, readerVars, writerVars, hsVars,
                   ctlVars, hbVars, dMsg, dIdx, dispatched, seen, userVars, outVars, inVars,
                   ctxDone, panicked>>

\* The return of a handler with a fault: handleMessages ignores the error
\* of Handle and takes the next frame.
routerReturn_IgnoresError ==
    /\ Running
    /\ UNCHANGED <<env, pureVars>>
    /\ dPc = "run"
    /\ \E ok \in BOOLEAN :
          /\ log' = Append(log, [ev |-> IF ok THEN "ret" ELSE "err", h |-> dIdx,
                                 pkt |-> dMsg.Packet,
                                 key |-> <<dMsg.ServiceID, dMsg.OrderNumber>>,
                                 fn |-> serviceRoutes(dMsg.ServiceID, dMsg.OrderNumber)[dIdx]])
          /\ seen' = IF ok THEN Append(seen, dMsg) ELSE seen
          /\ IF ok /\ dIdx < Len(serviceRoutes(dMsg.ServiceID, dMsg.OrderNumber))
             THEN dPc' = "call" /\ dIdx' = dIdx + 1 /\ UNCHANGED dMsg
             ELSE dPc' = "recv" /\ dIdx' = 0 /\ dMsg' = NoMsg
          /\ UNCHANGED closeVars
    /\ UNCHANGED <<connVars, sessVars, dialVars, readerVars, writerVars, hsVars, ctlVars,
                   hbVars, dispatched, userVars, outVars, inVars, ctxDone, panicked>>

\* The return of a handler with a fault: Handle goes on to the next handler
\* after an error, and returns the error of the last one.
routerReturn_RunsAllHandlers ==
    /\ Running
    /\ UNCHANGED <<env, pureVars>>
    /\ dPc = "run"
    /\ \E ok \in BOOLEAN :
          /\ log' = Append(log, [ev |-> IF ok THEN "ret" ELSE "err", h |-> dIdx,
                                 pkt |-> dMsg.Packet,
                                 key |-> <<dMsg.ServiceID, dMsg.OrderNumber>>,
                                 fn |-> serviceRoutes(dMsg.ServiceID, dMsg.OrderNumber)[dIdx]])
          /\ seen' = IF ok THEN Append(seen, dMsg) ELSE seen
          /\ IF dIdx < Len(serviceRoutes(dMsg.ServiceID, dMsg.OrderNumber))
             THEN dPc' = "call" /\ dIdx' = dIdx + 1 /\ UNCHANGED <<dMsg, closeVars>>
             ELSE IF ok
             THEN dPc' = "recv" /\ dIdx' = 0 /\ dMsg' = NoMsg /\ UNCHANGED closeVars
             ELSE /\ dPc' = "conn" /\ dIdx' = 0 /\ dMsg' = NoMsg
                  /\ closeOnceBody
    /\ UNCHANGED <<connVars, sessVars, dialVars, readerVars, writerVars, hsVars, ctlVars,
                   hbVars, dispatched, userVars, outVars, inVars, ctxDone, panicked>>

\* The handler (the decodeFunc of RegisterMessageHandler) returns: nil,
\* after it decoded the body, called every middleware (the any-typed one
\* observes the message) and called the typed handler; or an error, when
\* the body did not decode into the handler's type.  On nil Handle goes on
\* to the next handler, and after the last one handleMessages takes the
\* next frame; on an error Handle returns it and handleMessages calls
\* Close, which runs closeOnce.
routerReturn ==
    /\ Running
    /\ UNCHANGED <<env, pureVars>>
    /\ dPc = "run"
    /\ \E ok \in BOOLEAN :
          /\ log' = Append(log, [ev |-> IF ok THEN "ret" ELSE "err", h |-> dIdx,
                                 pkt |-> dMsg.Packet,
                                 key |-> <<dMsg.ServiceID, dMsg.OrderNumber>>,
                                 fn |-> serviceRoutes(dMsg.ServiceID, dMsg.OrderNumber)[dIdx]])
          /\ seen' = IF ok THEN Append(seen, dMsg) ELSE seen
          /\ IF ok
             THEN /\ IF dIdx < Len(serviceRoutes(dMsg.ServiceID, dMsg.OrderNumber))
                     THEN dPc' = "call" /\ dIdx' = dIdx + 1 /\ UNCHANGED dMsg
                     ELSE dPc' = "recv" /\ dIdx' = 0 /\ dMsg' = NoMsg
                  /\ UNCHANGED closeVars
             ELSE /\ dPc' = "conn" /\ dIdx' = 0 /\ dMsg' = NoMsg
                  /\ closeOnceBody
    /\ UNCHANGED <<connVars, sessVars, dialVars, readerVars, writerVars, hsVars, ctlVars,
                   hbVars, dispatched, userVars, outVars, inVars, ctxDone, panicked>>

\* The Close called by handleMessages closes the socket; the goroutine ends.
handleMessagesClose ==
    /\ Running
    /\ UNCHANGED <<env, pureVars>>
    /\ dPc = "conn"
    /\ connClose
    /\ dPc' = "done"
    /\ UNCHANGED <<closeVars, sessVars, dialVars, readerVars, writerVars, hsVars, ctlVars,
                   hbVars, dMsg, dIdx, log, dispatched, seen,
                   userVars, outVars, inVars, ctxDone, panicked>>

\* ------------------------------------------------------------ WriteMessage
\* The application sends a message on the client Dial returned: the frame is
\* sent on writeMessageCh (panic when closed, wait while full) and nil is
\* returned.
WriteMessage ==
    /\ Running
    /\ UNCHANGED <<env, pureVars>>
    /\ dialRet = "client"
    /\ Len(writeRet) < env.sends
    /\ \E m \in UserMessages :
          LET frame == AppFrame(DMLMarshal(m))
          IN  IF chClosed.w
              THEN /\ panicked' = "user"
                   /\ UNCHANGED <<outVars, writeRet>>
              ELSE /\ Len(writeMessageCh) < ChanCap
                   /\ writeMessageCh' = Append(writeMessageCh, frame)
                   /\ enqueued' = Append(enqueued, frame)
                   /\ writeRet' = Append(writeRet, "nil")
                   /\ UNCHANGED panicked
    /\ UNCHANGED <<connVars, closeVars, sessVars, dialVars, readerVars, writerVars, hsVars,
                   ctlVars, hbVars, dispVars, userConn, nUserClose, inVars, ctxDone>>

\* ----------------------------------------------------------- specification
Next ==
    \/ read
    \/ readFail
    \/ readClose
    \/ write
    \/ writeEnd
    \/ writeClose
    \/ handshakeRecv
    \/ handshakeClosed
    \/ handshakeCancelled
    \/ handshakeHandle
    \/ ctxCancel
    \/ handleControlRecv
    \/ handleControlHandle
    \/ heartbeatTick
    \/ heartbeatSend
    \/ handleMessagesRecv
    \/ routerCall
    \/ routerReturn
    \/ handleMessagesClose
    \/ WriteMessage
    \/ UserCloseOnce
    \/ UserCloseConn

Spec == Init /\ [][Next]_vars

\* ------------------------------------------------------------------- login
RECURSIVE Xor(_, _)
\* a ^ b on bytes.
Xor(a, b) ==
    IF a = 0 THEN b
    ELSE IF b = 0 THEN a
    ELSE (((a % 2) + (b % 2)) % 2) + 2 * Xor(a \div 2, b \div 2)

\* generateIV: 32 bytes, iv[i] = ivConstant - byte(i).
generateIV == [i \in 1..32 |-> (ivConstant - (i - 1)) % 256]

\* generateKey with a fault: bytes 1 and 2 of time_secs are exchanged.
generateKey_SwapsSecs(sid, timeSecs, timeMillis) ==
    LET leSid == LE16(sid) \o <<0, 0>>
        leSecs == LE32(timeSecs)
        leMillis == LE32(timeMillis)
    IN  [i \in 1..32 |->
            CASE i = 5 -> leSid[1] [] i = 6 -> leSid[3] [] i = 7 -> leSid[2]
              [] i = 9 -> leSecs[1] [] i = 10 -> leSecs[2]
              [] i = 13 -> leSecs[3] [] i = 14 -> leSecs[4]
              [] i = 15 -> leMillis[1] [] i = 16 -> leMillis[2]
              [] OTHER -> (keyConstant + (i - 1)) % 256]

\* generateKey: key[i] = keyConstant + byte(i), then bytes of the
\* little-endian sid, time_secs and time_millis are copied in from the
\* 4-byte scratch buffer le (PutUint16 leaves le[2] and le[3] zero).
\* Indices are 1-based here: key[4] of the code is index 5.
generateKey(sid, timeSecs, timeMillis) ==
    LET leSid == LE16(sid) \o <<0, 0>>
        leSecs == LE32(timeSecs)
        leMillis == LE32(timeMillis)
    IN  [i \in 1..32 |->
            CASE i = 5 -> leSid[1] [] i = 6 -> leSid[3] [] i = 7 -> leSid[2]
              [] i = 9 -> leSecs[1] [] i = 10 -> leSecs[3]
              [] i = 13 -> leSecs[2] [] i = 14 -> leSecs[4]
              [] i = 15 -> leMillis[1] [] i = 16 -> leMillis[2]
              [] OTHER -> (keyConstant + (i - 1)) % 256]

\* cipher.NewOFB(block, iv) over twofish.NewCipher(key): the keystream, which
\* depends on the key and the iv only.  The Twofish block function is not
\* part of the package; the variable cipher holds an arbitrary one.
OFBStream(key, iv) == cipher[<<key, iv>>]

\* xorRec1 with a fault: the keystream is added instead of xored.
xorRec1_Adds(buf, sid, timeSecs, timeMillis) ==
    LET stream == OFBStream(generateKey(sid, timeSecs, timeMillis), SubSeq(generateIV, 1, 16))
    IN  [i \in 1..Len(buf) |-> (buf[i] + stream[i]) % 256]

\* xorRec1: stream.XORKeyStream(xor, buf) with xor of the length of buf.
xorRec1(buf, sid, timeSecs, timeMillis) ==
    LET stream == OFBStream(generateKey(sid, timeSecs, timeMillis), SubSeq(generateIV, 1, 16))
    IN  [i \in 1..Len(buf) |-> Xor(buf[i], stream[i])]

EncryptRec1(plaintext, sid, timeSecs, timeMillis) ==
    xorRec1(plaintext, sid, timeSecs, timeMillis)

DecryptRec1(rec1, sid, timeSecs, timeMillis) ==
    xorRec1(rec1, sid, timeSecs, timeMillis)

\* ------------------------------------------------------- DML table decoder
\* Type tags of the values of a table file.
TypeRecordTemplate == 1
TypeRecord == 2

\* Field types.
GID == 0
INT == 1
UINT == 2
FLT == 3
BYT == 4
UBYT == 5
USHRT == 6
DBL == 7
STR == 8
WSTR == 9

\* "_TargetTable", the name of the field that ends a record template.
TargetTableName == <<95, 84, 97, 114, 103, 101, 116, 84, 97, 98, 108, 101>>

\* binary.Read / io.ReadFull / Discard / ReadByte of n bytes from the
\* buffered reader holding s: nothing is read for n = 0; io.EOF when no byte
\* is left, io.ErrUnexpectedEOF when fewer than n are left (they are
\* consumed).
ReadN(s, n) ==
    IF n = 0 THEN [err |-> "nil", bytes |-> <<>>, rest |-> s]
    ELSE IF s = <<>> THEN [err |-> "EOF", rest |-> <<>>]
    ELSE IF Len(s) < n THEN [err |-> "UnexpectedEOF", rest |-> <<>>]
    ELSE [err |-> "nil", bytes |-> SubSeq(s, 1, n), rest |-> SubSeq(s, n + 1, Len(s))]

\* The little-endian unsigned value of the bytes b.
RECURSIVE LEValue(_)
LEValue(b) == IF b = <<>> THEN 0 ELSE Head(b) + 256 * LEValue(Tail(b))

\* In the decoder below the result of a read is bound with
\*    CHOOSE out \in { e : x \in {read} } : TRUE
\* which is e with x standing for the result of the read, computed once.

\* RecordField.decode: name length, name, type, one byte discarded.
RecordField_decode(s) ==
    CHOOSE out \in {
        IF nameLen.err # "nil" THEN [err |-> nameLen.err]
        ELSE CHOOSE o1 \in {
            IF name.err # "nil" THEN [err |-> name.err]
            ELSE CHOOSE o2 \in {
                IF type.err # "nil" THEN [err |-> type.err]
                ELSE CHOOSE o3 \in {
                    IF pad.err # "nil" THEN [err |-> pad.err]
                    ELSE [err |-> "nil",
                          field |-> [Name |-> name.bytes, Type |-> type.bytes[1]],
                          rest |-> pad.rest]
                    : pad \in {ReadN(type.rest, 1)} } : TRUE
                : type \in {ReadN(name.rest, 1)} } : TRUE
            : name \in {ReadN(nameLen.rest, U16(nameLen.bytes, 1))} } : TRUE
        : nameLen \in {ReadN(s, 2)} } : TRUE

\* TargetTable.decode: name length, name.
TargetTable_decode(s) ==
    CHOOSE out \in {
        IF nameLen.err # "nil" THEN [err |-> nameLen.err]
        ELSE CHOOSE o1 \in {
            IF name.err # "nil" THEN [err |-> name.err]
            ELSE [err |-> "nil", Name |-> name.bytes, rest |-> name.rest]
            : name \in {ReadN(nameLen.rest, U16(nameLen.bytes, 1))} } : TRUE
        : nameLen \in {ReadN(s, 2)} } : TRUE

\* readTableHeader: one byte discarded, then the type tag.
readTableHeader(s) ==
    CHOOSE out \in {
        IF pad.err # "nil" THEN [err |-> pad.err]
        ELSE CHOOSE o1 \in {
            IF srv.err # "nil" THEN [err |-> srv.err]
            ELSE [err |-> "nil", srv |-> srv.bytes[1], rest |-> srv.rest]
            : srv \in {ReadN(pad.rest, 1)} } : TRUE
        : pad \in {ReadN(s, 1)} } : TRUE

\* The loop of readRecordTemplate: fields are decoded and collected until
\* the field named _TargetTable, which is followed by the target table.
RECURSIVE readRecordTemplateLoop(_, _, _)
readRecordTemplateLoop(s, size, fields) ==
    CHOOSE out \in {
        IF f.err # "nil" THEN [err |-> f.err]
        ELSE IF f.field.Name = TargetTableName
        THEN CHOOSE o1 \in {
                 IF target.err # "nil" THEN [err |-> target.err]
                 ELSE [err |-> "nil",
                       rc |-> [Size |-> size, Fields |-> fields, Table |-> target.Name],
                       rest |-> target.rest]
                 : target \in {TargetTable_decode(f.rest)} } : TRUE
        ELSE readRecordTemplateLoop(f.rest, size, Append(fields, f.field))
        : f \in {RecordField_decode(s)} } : TRUE

readRecordTemplate(s) ==
    CHOOSE out \in {
        IF size.err # "nil" THEN [err |-> size.err]
        ELSE readRecordTemplateLoop(size.rest, U16(size.bytes, 1), <<>>)
        : size \in {ReadN(s, 2)} } : TRUE

\* The switch of readRecord: the number of bytes read for a scalar field
\* and the Go type of the value stored.
FieldWidth(type) ==
    CASE type \in {GID, DBL} -> 8
      [] type \in {INT, UINT, FLT} -> 4
      [] type = USHRT -> 2
      [] type \in {BYT, UBYT} -> 1

FieldGoType(type) ==
    CASE type \in {GID, DBL} -> "uint64"
      [] type \in {INT, UINT, FLT} -> "uint32"
      [] type = USHRT -> "uint16"
      [] type \in {BYT, UBYT} -> "uint8"

\* record[name] = v on a map.
RecordSet(record, name, v) ==
    [n \in (DOMAIN record) \cup {name} |-> IF n = name THEN v ELSE record[n]]

\* The loop of readRecord over the fields of the template: a scalar of the
\* width of its type, or a length and that many bytes for STR and WSTR; a
\* type outside the switch panics.
RECURSIVE readRecordLoop(_, _, _, _)
readRecordLoop(s, fields, i, record) ==
    IF i > Len(fields) THEN [err |-> "nil", record |-> record, rest |-> s]
    ELSE CHOOSE out \in {
        IF field.Type \in {STR, WSTR}
        THEN CHOOSE o1 \in {
                 IF len.err # "nil" THEN [err |-> len.err]
                 ELSE CHOOSE o2 \in {
                     IF v.err # "nil" THEN [err |-> v.err]
                     ELSE readRecordLoop(v.rest, fields, i + 1,
                             RecordSet(rec, field.Name, [t |-> "string", v |-> v.bytes]))
                     : v \in {ReadN(len.rest, U16(len.bytes, 1))} } : TRUE
                 : len \in {ReadN(s, 2)} } : TRUE
        ELSE IF field.Type \notin GID..DBL THEN [err |-> "panic"]
        ELSE CHOOSE o1 \in {
                 IF v.err # "nil" THEN [err |-> v.err]
                 ELSE readRecordLoop(v.rest, fields, i + 1,
                         RecordSet(rec, field.Name,
                                   [t |-> FieldGoType(field.Type), v |-> LEValue(v.bytes)]))
                 : v \in {ReadN(s, FieldWidth(field.Type))} } : TRUE
        : field \in {fields[i]}, rec \in {record} } : TRUE

readRecord(s, rc) ==
    CHOOSE out \in {
        IF size.err # "nil" THEN [err |-> size.err]
        ELSE readRecordLoop(size.rest, rc.Fields, 1, <<>>)
        : size \in {ReadN(s, 2)} } : TRUE

\* The loop of readTable: `length` records, each after a header of type
\* TypeRecord.
RECURSIVE readTableLoop(_, _, _, _, _)
readTableLoop(s, rc, length, i, records) ==
    IF i >= length THEN [err |-> "nil", records |-> records, rest |-> s]
    ELSE CHOOSE out \in {
        IF h.err # "nil" THEN [err |-> h.err]
        ELSE IF h.srv # TypeRecord THEN [err |-> "format"]
        ELSE CHOOSE o1 \in {
                 IF r.err # "nil" THEN [err |-> r.err]
                 ELSE readTableLoop(r.rest, rc, length, i + 1, Append(recs, r.record))
                 : r \in {readRecord(h.rest, rc)} } : TRUE
        : h \in {readTableHeader(s)}, recs \in {records} } : TRUE

readTable(s, length) ==
    CHOOSE out \in {
        IF h.err # "nil" THEN [err |-> h.err]
        ELSE IF h.srv # TypeRecordTemplate THEN [err |-> "format"]
        ELSE CHOOSE o1 \in {
            IF t.err # "nil" THEN [err |-> t.err]
            ELSE CHOOSE o2 \in {
                IF recs.err # "nil" THEN [err |-> recs.err]
                ELSE [err |-> "nil",
                      table |-> [Name |-> t.rc.Table, Records |-> recs.records],
                      rest |-> recs.rest]
                : recs \in {readTableLoop(t.rest, t.rc, length, 0, <<>>)} } : TRUE
            : t \in {readRecordTemplate(h.rest)} } : TRUE
        : h \in {readTableHeader(s)} } : TRUE

\* One turn of the loop of DecodeTable with a fault: any error of the read
\* of the length ends the loop.
DecodeTableStep_BreaksOnAnyError(s) ==
    CHOOSE out \in {
        IF length.err # "nil" THEN [kind |-> "break"]
        ELSE CHOOSE o1 \in {
            IF t.err = "nil" THEN [kind |-> "table", table |-> t.table, rest |-> t.rest]
            ELSE IF t.err = "panic" THEN [kind |-> "panic"]
            ELSE [kind |-> "err"]
            : t \in {readTable(length.rest, U32(length.bytes, 1))} } : TRUE
        : length \in {ReadN(s, 4)} } : TRUE

\* One turn of the loop of DecodeTable: io.EOF of the read of the length
\* ends the loop; after any other error of that read the length is still 0
\* and readTable is called; every error of readTable is returned.
DecodeTableStep(s) ==
    CHOOSE out \in {
        IF length.err = "EOF" THEN [kind |-> "break"]
        ELSE CHOOSE o1 \in {
            IF t.err = "nil" THEN [kind |-> "table", table |-> t.table, rest |-> t.rest]
            ELSE IF t.err = "panic" THEN [kind |-> "panic"]
            ELSE [kind |-> "err"]
            : t \in {readTable(length.rest,
                               IF length.err = "nil" THEN U32(length.bytes, 1) ELSE 0)} } : TRUE
        : length \in {ReadN(s, 4)} } : TRUE

RECURSIVE DecodeTableLoop(_, _)
DecodeTableLoop(s, tables) ==
    CHOOSE out \in {
        CASE step.kind = "break" -> [res |-> "ok", tables |-> tabs]
          [] step.kind = "err" -> [res |-> "err"]
          [] step.kind = "panic" -> [res |-> "panic"]
          [] step.kind = "table" -> DecodeTableLoop(step.rest, Append(tabs, step.table))
        : step \in {DecodeTableStep(s)}, tabs \in {tables} } : TRUE

DecodeTable(r) == DecodeTableLoop(r, <<>>)

\* ------------------------------------------- codecs and login on their own
\* The byte values and byte strings given to the functions.
Bytes == {0, 1, 255}

Payloads(n) == UNION { [1..k -> Bytes] : k \in 0..n }

\* Bodies (inner header and payload) around the limit of the short length.
BoundaryBodies == {shortMax - 1, shortMax, shortMax + 1, shortMax + 2}

Frames ==
    { [Control |-> c, Opcode |-> o, MessageData |-> d] :
        c \in BOOLEAN, o \in {PktSessionOffer, PktSessionAccept, 255},
        d \in Payloads(MaxPayload) \cup { Zeros(b - 4) : b \in BoundaryBodies } }

Messages ==
    { [ServiceID |-> sv, OrderNumber |-> o, Packet |-> d] :
        sv \in {0, 1, 255}, o \in {0, 255}, d \in Payloads(MaxPayload) }

SessionIDs == {0, 3258, 65535}

Offers ==
    { [SessionID |-> i, TimeSecs |-> t, TimeMillis |-> 805, RawMessage |-> r, Signature |-> g] :
        i \in SessionIDs, t \in {0, 1617815695},
        r \in {<<>>, <<7>>}, g \in {<<>>, [k \in 1..256 |-> 1]} }

Accepts ==
    { [TimeSecs |-> t, TimeMillis |-> 805, SessionID |-> i, EncryptedMessage |-> d] :
        i \in SessionIDs, t \in {0, 1617815695}, d \in Payloads(MaxPayload) }

ClientKeepAlives ==
    { [SessionID |-> i, TimeMillis |-> ms, SessionDurationMins |-> mins] :
        i \in SessionIDs, ms \in {0, 250, 999}, mins \in {0, 65535} }

ServerKeepAlives ==
    { [SessionID |-> i, UptimeMillis |-> u] : i \in SessionIDs, u \in {0, 1000, 2147483647} }

\* KeepAliveRsp is a struct without fields.
KeepAliveRsps == { <<>> }

\* (sid, time_secs, time_millis) given to generateKey.
KeyParams ==
    { [sid |-> i, secs |-> t, millis |-> m] :
        i \in SessionIDs, t \in {0, 1617815695, 16909060, 2147483647},
        m \in {0, 805, 16909060} }

\* The parameters and plaintexts given to EncryptRec1.
Rec1Params ==
    { [sid |-> 3258, secs |-> 1617815695, millis |-> 805],
      [sid |-> 2996, secs |-> 1620500010, millis |-> 834] }

Rec1Inputs == { [p |-> d, q |-> q] : d \in Payloads(MaxPayload), q \in Rec1Params }

\* The keystreams: one for each key and iv in use, as long as the longest
\* plaintext.
Ciphers ==
    [ { <<generateKey(q.sid, q.secs, q.millis), SubSeq(generateIV, 1, 16)>> : q \in Rec1Params }
        -> [1..MaxPayload -> Bytes] ]

\* Byte streams given to FrameReader.Read as they are: each magic with each
\* short length and a body as long, shorter or longer than announced; the
\* long form with each length; and streams that end inside the header.
StreamBody(n) == SubSeq(<<1, 3, 0, 0, 7, 0, 0, 0, 0, 0>>, 1, n)

Streams ==
    { LE16(m) \o LE16(n) \o StreamBody(k) :
        m \in {headerMagic, 0, 3568}, n \in 0..(4 + MaxPayload), k \in 0..(4 + MaxPayload) }
    \cup { LE16(headerMagic) \o LE16(32768) \o LE32(n) \o StreamBody(n) :
             n \in 0..(4 + MaxPayload) }
    \cup { SubSeq(LE16(headerMagic) \o LE16(5), 1, k) : k \in 0..3 }

\* Byte strings given to DMLMessage.Unmarshal as they are: a header with
\* each dml_length around the bounds of the field and each body, and
\* strings shorter than the header.
DMLBuffers ==
    { <<1, 1>> \o LE16(dl) \o d :
        dl \in {0, 1, 2, 3, 4, 5, 65534, 65535}, d \in Payloads(MaxPayload) }
    \cup { Zeros(k) : k \in 0..3 }

\* Tables of a table file: the table of the sample file dml1.bin
\* (_TableList, a field Name of type STR, one record with Name "Test"); a
\* table without fields, records or name; and a table "S" with a field of
\* every type, named "A" to "J", and two records.  A record lists the bytes
\* of its values in the order of the fields (the upper bytes of a scalar are
\* 0, so that its value is an integer of the model).
TableSamples ==
    { [Name |-> <<95, 84, 97, 98, 108, 101, 76, 105, 115, 116>>,
       Fields |-> << [Name |-> <<78, 97, 109, 101>>, Type |-> STR] >>,
       Records |-> << << <<84, 101, 115, 116>> >> >>],
      [Name |-> <<>>, Fields |-> <<>>, Records |-> <<>>],
      [Name |-> <<83>>,
       Fields |-> [type \in 1..10 |-> [Name |-> <<64 + type>>, Type |-> type - 1]],
       Records |-> [k \in 1..2 |->
                     [type \in 1..10 |->
                        IF type - 1 \in {STR, WSTR}
                        THEN SubSeq(<<7, 0>>, 1, (k + type) % 3)
                        ELSE [j \in 1..FieldWidth(type - 1) |->
                                IF j = 1 THEN 200 + k + type
                                ELSE IF j = 2 THEN k ELSE 0]]]] }

\* The bytes of a table file that hold the given tables, in the layout
\* DecodeTable reads: record count, template (header, size, fields, the
\* _TargetTable field, target table), then the records (header, size,
\* values).
FieldBytes(f) == LE16(Len(f.Name)) \o f.Name \o <<f.Type, 0>>

ValueBytes(type, v) == IF type \in {STR, WSTR} THEN LE16(Len(v)) \o v ELSE v

RecordBytes(fields, rec) ==
    <<0, TypeRecord>> \o LE16(0)
       \o Concat([i \in 1..Len(fields) |-> ValueBytes(fields[i].Type, rec[i])])

TableBytes(t) ==
    LE32(Len(t.Records)) \o <<0, TypeRecordTemplate>> \o LE16(0)
       \o Concat([i \in 1..Len(t.Fields) |-> FieldBytes(t.Fields[i])])
       \o FieldBytes([Name |-> TargetTableName, Type |-> STR])
       \o LE16(Len(t.Name)) \o t.Name
       \o Concat([k \in 1..Len(t.Records) |-> RecordBytes(t.Fields, t.Records[k])])

TablesBytes(ts) == Concat([i \in 1..Len(ts) |-> TableBytes(ts[i])])

\* The table files given to DecodeTable: up to MaxTables tables, and every
\* prefix of their bytes.
TableInputs ==
    UNION { { [tables |-> ts, stream |-> SubSeq(TablesBytes(ts), 1, c)] :
                c \in 0..Len(TablesBytes(ts)) } :
            ts \in UNION { [1..k -> TableSamples] : k \in 0..MaxTables } }

\* The dispatches given to a decodeFunc: a message, whether its body
\* decodes into the handler's type T, and the types the middleware
\* registered on the router were declared for, in registration order.
WrapperInputs ==
    { [d |-> [ServiceID |-> 1, OrderNumber |-> 1, Packet |-> b], decodes |-> ok,
       middleware |-> mw] :
        b \in Payloads(MaxPayload), ok \in BOOLEAN,
        mw \in UNION { [1..k -> {"T", "U", "any"}] : k \in 0..MaxMiddleware } }

\* The programs given to a router: the calls of RegisterMessageHandler, in
\* order, and the key of the message dispatched afterwards.
RouteInputs ==
    { [regs |-> regs, service |-> s, order |-> o] :
        regs \in UNION { [1..k -> [service : RouteKeys, order : RouteKeys,
                                   fn : {"h1", "h2", "bad"}]] :
                           k \in 0..MaxRegistrations },
        s \in RouteKeys, o \in RouteKeys }

ControlKinds == {"offer", "accept", "clientKeepAlive", "serverKeepAlive", "keepAliveRsp"}

\* The functions exercised on bytes that no encoder of the package wrote.
RawKinds == {"frameBytes", "dmlBytes", "table"}

PureInputs(op) ==
    CASE op = "frame" -> Frames
      [] op = "dml" -> Messages
      [] op = "offer" -> Offers
      [] op = "accept" -> Accepts
      [] op = "clientKeepAlive" -> ClientKeepAlives
      [] op = "serverKeepAlive" -> ServerKeepAlives
      [] op = "keepAliveRsp" -> KeepAliveRsps
      [] op = "key" -> KeyParams
      [] op = "rec1" -> Rec1Inputs
      [] op = "frameBytes" -> Streams
      [] op = "dmlBytes" -> DMLBuffers
      [] op = "table" -> TableInputs
      [] op = "wrapper" -> WrapperInputs
      [] op = "route" -> RouteInputs
      [] op = "envelope" -> Messages

\* MarshalBinary / UnmarshalBinary of the control record of a kind.
ControlMarshal(kind, r) ==
    CASE kind = "offer" -> OfferMarshal(r)
      [] kind = "accept" -> AcceptMarshal(r)
      [] kind = "clientKeepAlive" -> ClientKeepAliveMarshal(r)
      [] kind = "serverKeepAlive" -> ServerKeepAliveMarshal(r)
      [] kind = "keepAliveRsp" -> KeepAliveRspMarshal

ControlUnmarshal(kind, data) ==
    CASE kind = "offer" -> OfferUnmarshal(data)
      [] kind = "accept" -> AcceptUnmarshal(data)
      [] kind = "clientKeepAlive" -> ClientKeepAliveUnmarshal(data)
      [] kind = "serverKeepAlive" -> ServerKeepAliveUnmarshal(data)
      [] kind = "keepAliveRsp" -> KeepAliveRspUnmarshal(data)

\* No connection is dialled while a function is exercised on its own.
NoEnv == [frames |-> {}, in |-> 0, ticks |-> 0, sends |-> 0, closes |-> 0, last |-> "any"]

InitPure ==
    /\ ClientStart(NoEnv)
    /\ pOp \in ControlKinds \cup RawKinds \cup {"frame", "dml", "key", "rec1", "wrapper", "route", "envelope"}
    /\ pIn \in PureInputs(pOp)
    /\ IF pOp \in RawKinds
       THEN pPc = "wire" /\ pMid = (IF pOp = "table" THEN pIn.stream ELSE pIn)
       ELSE pPc = "in" /\ pMid = <<>>
    /\ pOut = [err |-> FALSE]
    /\ cipher \in IF pOp = "rec1" THEN Ciphers ELSE {<<>>}

clientVars ==
    <<env, connVars, closeVars, sessVars, dialVars, readerVars, writerVars, hsVars, ctlVars,
      hbVars, dispVars, userVars, outVars, inVars, ctxDone, panicked>>

\* FrameWriter.Write on a connection that takes every write.
FrameWrite ==
    /\ pOp = "frame" /\ pPc = "in"
    /\ pMid' = EncodeFrame(pIn)
    /\ pPc' = "wire"
    /\ UNCHANGED <<clientVars, pOp, pIn, pOut, cipher>>

\* FrameReader.Read on the bytes written, or on the bytes given.
FrameReadBack ==
    /\ pOp \in {"frame", "frameBytes"} /\ pPc = "wire"
    /\ pOut' = FrameRead(pMid)
    /\ pPc' = "out"
    /\ UNCHANGED <<clientVars, pOp, pIn, pMid, cipher>>

DMLEncode ==
    /\ pOp = "dml" /\ pPc = "in"
    /\ pMid' = DMLMarshal(pIn)
    /\ pPc' = "wire"
    /\ UNCHANGED <<clientVars, pOp, pIn, pOut, cipher>>

DMLDecode ==
    /\ pOp \in {"dml", "dmlBytes"} /\ pPc = "wire"
    /\ pOut' = DMLUnmarshal(pMid)
    /\ pPc' = "out"
    /\ UNCHANGED <<clientVars, pOp, pIn, pMid, cipher>>

ControlEncode ==
    /\ pOp \in ControlKinds /\ pPc = "in"
    /\ pMid' = ControlMarshal(pOp, pIn)
    /\ pPc' = "wire"
    /\ UNCHANGED <<clientVars, pOp, pIn, pOut, cipher>>

ControlDecode ==
    /\ pOp \in ControlKinds /\ pPc = "wire"
    /\ pOut' = ControlUnmarshal(pOp, pMid)
    /\ pPc' = "out"
    /\ UNCHANGED <<clientVars, pOp, pIn, pMid, cipher>>

KeyGenerate ==
    /\ pOp = "key" /\ pPc = "in"
    /\ pOut' = [err |-> FALSE, key |-> generateKey(pIn.sid, pIn.secs, pIn.millis)]
    /\ pPc' = "out"
    /\ UNCHANGED <<clientVars, pOp, pIn, pMid, cipher>>

Rec1Encrypt ==
    /\ pOp = "rec1" /\ pPc = "in"
    /\ pMid' = EncryptRec1(pIn.p, pIn.q.sid, pIn.q.secs, pIn.q.millis)
    /\ pPc' = "wire"
    /\ UNCHANGED <<clientVars, pOp, pIn, pOut, cipher>>

Rec1Decrypt ==
    /\ pOp = "rec1" /\ pPc = "wire"
    /\ pOut' = [err |-> FALSE,
                bytes |-> DecryptRec1(pMid, pIn.q.sid, pIn.q.secs, pIn.q.millis)]
    /\ pPc' = "out"
    /\ UNCHANGED <<clientVars, pOp, pIn, pMid, cipher>>

\* DecodeTable on the bytes of a file.
TableDecode ==
    /\ pOp = "table" /\ pPc = "wire"
    /\ pOut' = DecodeTable(pMid)
    /\ pPc' = "out"
    /\ UNCHANGED <<clientVars, pOp, pIn, pMid, cipher>>

\* router.Handle calls a decodeFunc.
WrapperCall ==
    /\ pOp = "wrapper" /\ pPc = "in"
    /\ pOut' = decodeFunc(pIn.d, pIn.decodes, pIn.middleware)
    /\ pPc' = "out"
    /\ UNCHANGED <<clientVars, pOp, pIn, pMid, cipher>>

\* The registrations made before Dial.
RouterRegister ==
    /\ pOp = "route" /\ pPc = "in"
    /\ pMid' = RegisterAll(pIn.regs)
    /\ pPc' = "wire"
    /\ UNCHANGED <<clientVars, pOp, pIn, pOut, cipher>>

\* handleMessages calls router.Handle for a message; no call is made when a
\* registration has panicked.
RouterHandle ==
    /\ pOp = "route" /\ pPc = "wire"
    /\ ~pMid.fault
    /\ pOut' = Handle(pMid.routes, pIn.service, pIn.order)
    /\ pPc' = "out"
    /\ UNCHANGED <<clientVars, pOp, pIn, pMid, cipher>>

\* WriteMessage builds the envelope and sends its frame on writeMessageCh;
\* the writer passes the frame to FrameWriter.Write: the bytes on the wire.
EnvelopeSend(service, order, body) ==
    EncodeFrame([MessageData |-> DMLMarshal([ServiceID |-> service, OrderNumber |-> order,
                                             Packet |-> body]),
                 Control |-> FALSE, Opcode |-> 0])

\* The reader takes the frame from the wire with FrameReader.Read and puts
\* it on readMessageCh when it is not a control frame; handleMessages
\* decodes its payload with DMLMessage.Unmarshal.
EnvelopeReceive(s) ==
    CHOOSE out \in
      { IF fr.err THEN [res |-> "readErr"]
        ELSE IF fr.frame.Control THEN [res |-> "control"]
        ELSE DMLUnmarshal(fr.frame.MessageData) :
          fr \in {FrameRead(s)} } : TRUE

\* WriteMessage and the writer, for one message.
EnvelopeWrite ==
    /\ pOp = "envelope" /\ pPc = "in"
    /\ pMid' = EnvelopeSend(pIn.ServiceID, pIn.OrderNumber, pIn.Packet)
    /\ pPc' = "wire"
    /\ UNCHANGED <<clientVars, pOp, pIn, pOut, cipher>>

\* The reader and handleMessages, for the frame on the wire.
EnvelopeRead ==
    /\ pOp = "envelope" /\ pPc = "wire"
    /\ pOut' = EnvelopeReceive(pMid)
    /\ pPc' = "out"
    /\ UNCHANGED <<clientVars, pOp, pIn, pMid, cipher>>

NextPure ==
    \/ EnvelopeWrite
    \/ EnvelopeRead
    \/ RouterRegister
    \/ RouterHandle
    \/ WrapperCall
    \/ TableDecode
    \/ FrameWrite
    \/ FrameReadBack
    \/ DMLEncode
    \/ DMLDecode
    \/ ControlEncode
    \/ ControlDecode
    \/ KeyGenerate
    \/ Rec1Encrypt
    \/ Rec1Decrypt

SpecPure == InitPure /\ [][NextPure]_vars

\* ------------------------------------------------------------------ claims
IsAccept(f) == f.Control /\ f.Opcode = PktSessionAccept

\* C1: however many times Close is called, the socket is closed exactly once
\* and each of the three channels is closed exactly once.
C1_CloseIdempotent ==
    /\ connCloseCalls <= 1
    /\ closeCount.c <= 1 /\ closeCount.m <= 1 /\ closeCount.w <= 1

\* C2: a WriteMessage call made after the write queue was closed returns a
\* Closed error: it does not fault and it enqueues no frame.
C2_WriteAfterCloseReturnsClosed ==
    [][(chClosed.w /\ (panicked' = "user" \/ writeRet' # writeRet))
         => (/\ panicked' = "none"
             /\ writeRet' = Append(writeRet, "closed")
             /\ enqueued' = enqueued)]_vars

\* C3: c.connected goes from false to true at most once and is never set
\* back to false; it has done so exactly once when Dial returns the client.
C3_ConnectedOnce ==
    [][/\ connected => connected'
       /\ flips' <= 1
       /\ dialRet' = "client" => (connected' /\ flips' = 1)]_vars

\* C3 witness: a second offer was accepted after the handshake completed.
C3_Witness ==
    /\ connected /\ flips = 1
    /\ Len(SelectSeq(enqueued, IsAccept)) >= 2

\* C4: after Dial returned the client, no inbound frame changes the session
\* (SessionID, SessionTimeSecs, SessionTimeMillis).
C4_SessionImmutable == dialRet = "client" => session = dialSession

\* C5: when the control frame awaited by the handshake is a well-formed
\* SessionOffer, exactly one SessionAccept echoing the offer is enqueued,
\* the offer's values become the session, connected is set and Dial
\* returns the client.
C5_OfferCompletesHandshake ==
    [][(/\ hsPc = "handle"
        /\ ControlEffect(hsFrame).kind = "accept"
        /\ (hsPc' # "handle" \/ panicked' # "none"))
         => (/\ enqueued' = Append(enqueued, ControlEffect(hsFrame).out)
             /\ IsAccept(ControlEffect(hsFrame).out)
             /\ session' = ControlEffect(hsFrame).session
             /\ connected'
             /\ dialRet' = "client")]_vars

C7_CancelAborts == hsLate => (dialRet # "client" /\ ~connected)

\* C7 as amended: when the cancellation has fired and no control frame is
\* pending, the handshake can only leave its select with an error; and
\* whenever Dial returns the cancellation error, no client task was started
\* and connected is false.
C7_CancelBranchAborts ==
    [][/\ (hsPc = "select" /\ ctxDone /\ readControlCh = <<>> /\ hsPc' # "select")
            => (dialRet' \in {"cancelled", "closed"} /\ ~connected')
       /\ dialRet' \in {"cancelled", "closed"}
            => (~connected' /\ ctlPc' = "none" /\ dPc' = "none" /\ hbPc' = "none")]_vars

\* C7 witness: Dial returned the cancellation error after the handshake had
\* handled a frame.
C7_Witness == dialRet = "cancelled" /\ hsFirst # -1

\* The bytes of the given frames, encoded one after the other.
Wire(frames) == Concat([i \in 1..Len(frames) |-> EncodeFrame(frames[i])])

\* C8: the bytes written to the socket are the encodings of the frames in
\* the order they were enqueued on writeMessageCh: the queue holds the
\* frames not yet taken, in order; the socket holds the encodings of the
\* frames taken, all of them while write runs, a prefix once a write failed.
C8_WriteOrder ==
    LET n == Len(enqueued) - Len(writeMessageCh)
    IN  /\ n >= 0
        /\ writeMessageCh = SubSeq(enqueued, n + 1, Len(enqueued))
        /\ IsPrefix(sockOut, Wire(SubSeq(enqueued, 1, n)))
        /\ wPc = "recv" => sockOut = Wire(SubSeq(enqueued, 1, n))

\* C8 witness: frames of the handshake, the heartbeat and the application
\* were all written.
C8_Witness ==
    /\ wPc = "recv" /\ writeMessageCh = <<>>
    /\ \E i, j, k \in 1..Len(enqueued) :
          /\ IsAccept(enqueued[i])
          /\ enqueued[j].Control /\ enqueued[j].Opcode = PktSessionKeepAlive
          /\ ~enqueued[k].Control
    /\ sockOut = Wire(enqueued)

\* C9: handlers run one at a time and in arrival order: every call is
\* followed at once by its own return, and a later call is for a later
\* message, or for the next handlers of the same message.
C9_DispatchOrder ==
    /\ \A i \in 1..Len(log) :
          IF log[i].ev = "call"
          THEN i < Len(log) =>
                  /\ log[i + 1].ev \in {"ret", "err"}
                  /\ log[i + 1].h = log[i].h
                  /\ log[i + 1].pkt = log[i].pkt
          ELSE i > 1 /\ log[i - 1].ev = "call"
    /\ \A i, j \in 1..Len(log) :
          (i < j /\ log[i].ev = "call" /\ log[j].ev = "call")
             => \/ log[i].pkt[1] < log[j].pkt[1]
                \/ log[i].pkt = log[j].pkt /\ log[i].h < log[j].h
    /\ (dPc = "run") <=> (log # <<>> /\ log[Len(log)].ev = "call")

\* C9 witness: both handlers ran for two messages.
C9_Witness ==
    \E i, j \in 1..Len(log) :
       /\ log[i].pkt # log[j].pkt
       /\ log[i].h = 2 /\ log[j].h = 2

\* C10: once shutdown has started, every goroutine of the client ends: when
\* nothing can run any more, none is left waiting.
C10_AllTasksEnd ==
    (onceDone /\ Running /\ ~ENABLED Next)
       => /\ rPc = "done" /\ wPc = "done"
          /\ ctlPc \in {"none", "done"}
          /\ dPc \in {"none", "done"}
          /\ hbPc = "none"

\* C11: when a handler returned an error, the client shuts down and no later
\* application message is dispatched: the error is the last event of the
\* dispatch task, its message is the last one passed to the router, Close
\* has run (the channels are closed, and the socket once the task ended),
\* and the task takes no further frame.
C11_HandlerErrorStopsDispatch ==
    \A i \in 1..Len(log) :
       log[i].ev = "err"
          => /\ i = Len(log)
             /\ dispatched[Len(dispatched)].Packet = log[i].pkt
             /\ onceDone /\ chClosed.m
             /\ dPc \in {"conn", "done"}
             /\ dPc = "done" => ~connOpen

\* C11 witness: a handler returned an error while a later application
\* message was waiting, and the dispatch task has ended.
C11_Witness ==
    /\ log # <<>> /\ log[Len(log)].ev = "err"
    /\ readMessageCh # <<>>
    /\ dPc = "done"

\* C12: dispatching a message whose (service, order) has no handler is a
\* no-op for every service and order in 0..255: no fault, no handler call,
\* no change of the session or of the connection, and the dispatch task
\* goes on to the next frame.
C12_UnroutedIsNoOp ==
    [][(/\ dPc = "recv" /\ readMessageCh # <<>>
        /\ readMessageCh' = Tail(readMessageCh)
        /\ DMLUnmarshal(messageNext.MessageData).res = "ok"
        /\ LET m == DMLUnmarshal(messageNext.MessageData).msg
           IN  /\ m.ServiceID \in 0..255 /\ m.OrderNumber \in 0..255
               /\ serviceRoutes(m.ServiceID, m.OrderNumber) = <<>>)
         => (/\ panicked' = "none"
             /\ dPc' = "recv"
             /\ UNCHANGED <<log, seen, sessVars, connVars, closeVars>>)]_vars

\* C19: the any-typed middleware observes every dispatched message: once
\* router.Handle has returned for a message, the middleware has seen it.
C19_AnyMiddlewareSeesAll ==
    \A i \in 1..Len(dispatched) :
       (i < Len(dispatched) \/ dPc \in {"recv", "conn", "done"})
          => \E j \in 1..Len(seen) : seen[j] = dispatched[i]

\* C20: the handlers of a message run in registration order and stop at the
\* first error: the h-th call for a message is the h-th handler registered
\* for its key, it follows the nil return of the (h-1)-th, and after an
\* error no further handler is called for the message.
C20_RegistrationOrder ==
    \A i \in 1..Len(log) :
       log[i].ev = "call"
          => /\ log[i].h \in 1..Len(serviceRoutes(log[i].key[1], log[i].key[2]))
             /\ log[i].fn = serviceRoutes(log[i].key[1], log[i].key[2])[log[i].h]
             /\ IF log[i].h = 1
                THEN \A j \in 1..(i - 1) : log[j].pkt # log[i].pkt
                ELSE /\ log[i - 1].ev = "ret"
                     /\ log[i - 1].pkt = log[i].pkt
                     /\ log[i - 1].h = log[i].h - 1
             /\ \A j \in 1..(i - 1) : log[j].ev = "err" => log[j].pkt # log[i].pkt

\* C20 witness: the first handler of a message returned an error and the
\* dispatch ended without a call of the second; for another message both
\* handlers ran in order.
C20_Witness ==
    /\ dPc = "done"
    /\ \E i, j \in 1..Len(log) :
          /\ log[i].ev = "ret" /\ log[i].fn = "h2"
          /\ log[j].ev = "err" /\ log[j].fn = "h1"

\* C13: writing a frame with the frame writer and reading the bytes back
\* with the frame reader yields a frame equal to it in control flag, opcode
\* and payload.
C13_FrameRoundTrip ==
    (pOp = "frame" /\ pPc = "out")
       => (/\ ~pOut.err
           /\ pOut.frame.Control = pIn.Control
           /\ pOut.frame.Opcode = pIn.Opcode
           /\ pOut.frame.MessageData = pIn.MessageData)

\* C14: for a body of body_len bytes the writer emits length_short =
\* body_len + 1 and no length_long when body_len + 1 <= 0x7FFF, and
\* length_short = 0x8000 followed by length_long = body_len + 1 otherwise;
\* the reader computes the same length from what the writer emitted.
C14_LengthEncoding ==
    (pOp = "frame" /\ pPc \in {"wire", "out"})
       => LET body_len == 4 + Len(pIn.MessageData)
          IN  /\ IF body_len + 1 <= 32767
                 THEN /\ U16(pMid, 3) = body_len + 1
                      /\ Len(pMid) = 4 + body_len + 1
                 ELSE /\ U16(pMid, 3) = 32768
                      /\ U32(pMid, 5) = body_len + 1
                      /\ Len(pMid) = 8 + body_len + 1
              /\ ReadLength(pMid) = body_len + 1

\* C15: DMLMessage.Unmarshal applied to DMLMessage.Marshal(m) succeeds and
\* yields the service_id, order_number and body of m.
C15_DMLRoundTrip ==
    (pOp = "dml" /\ pPc = "out")
       => (/\ pOut.res = "ok"
           /\ pOut.msg.ServiceID = pIn.ServiceID
           /\ pOut.msg.OrderNumber = pIn.OrderNumber
           /\ pOut.msg.Packet = pIn.Packet)

\* C16: decoding the encoding of a control record (SessionOffer,
\* SessionAccept, ClientKeepAlive, ServerKeepAlive, KeepAliveRsp) succeeds
\* and yields a record equal to it in every field.
C16_ControlRoundTrip ==
    (pOp \in ControlKinds /\ pPc = "out")
       => (/\ ~pOut.err
           /\ \A f \in DOMAIN pIn : pOut[f] = pIn[f])

\* C17: DecryptRec1(EncryptRec1(p, s, t, m), s, t, m) = p, the ciphertext
\* is as long as the plaintext, and EncryptRec1 and DecryptRec1 compute the
\* same function.
C17_Rec1Involution ==
    (pOp = "rec1" /\ pPc = "out")
       => (/\ pOut.bytes = pIn.p
           /\ Len(pMid) = Len(pIn.p)
           /\ \A d \in {pIn.p, pMid} :
                 EncryptRec1(d, pIn.q.sid, pIn.q.secs, pIn.q.millis)
                    = DecryptRec1(d, pIn.q.sid, pIn.q.secs, pIn.q.millis))

\* C17 witness: a plaintext of the greatest length was encrypted to
\* different bytes and decrypted.
C17_Witness ==
    /\ pOp = "rec1" /\ pPc = "out"
    /\ Len(pIn.p) = MaxPayload
    /\ \A i \in 1..Len(pIn.p) : pMid[i] # pIn.p[i]

\* C18: generateKey returns 32 bytes, key[i] = 0x17 + i except at the
\* indices that take bytes of sid, time_secs and time_millis; for
\* (3258, 1617815695, 805) it is
\* 1718191aba000c1e8f6d2122e86025032728292a2b2c2d2e2f30313233343536.
C18_KeySchedule ==
    (pOp = "key" /\ pPc = "out")
       => LET key == pOut.key
              B(n, k) == (n \div (256 ^ k)) % 256
          IN  /\ Len(key) = 32
              /\ \A i \in 0..31 :
                    key[i + 1] =
                       CASE i = 4 -> B(pIn.sid, 0)
                         [] i = 5 -> 0
                         [] i = 6 -> B(pIn.sid, 1)
                         [] i = 8 -> B(pIn.secs, 0)
                         [] i = 9 -> B(pIn.secs, 2)
                         [] i = 12 -> B(pIn.secs, 1)
                         [] i = 13 -> B(pIn.secs, 3)
                         [] i = 14 -> B(pIn.millis, 0)
                         [] i = 15 -> B(pIn.millis, 1)
                         [] OTHER -> 23 + i
              /\ (pIn.sid = 3258 /\ pIn.secs = 1617815695 /\ pIn.millis = 805)
                    => key = <<23, 24, 25, 26, 186, 0, 12, 30, 143, 109, 33, 34, 232, 96,
                               37, 3, 39, 40, 41, 42, 43, 44, 45, 46, 47, 48, 49, 50, 51,
                               52, 53, 54>>

\* C18 witness: the key of (3258, 1617815695, 805) was generated.
C18_Witness ==
    /\ pOp = "key" /\ pPc = "out"
    /\ pIn.sid = 3258 /\ pIn.secs = 1617815695 /\ pIn.millis = 805

\* C22: when handleControl, which runs only after the handshake has
\* completed, finishes handling a SessionOffer frame, the client has been
\* closed, no frame was enqueued for it and the session is unchanged.
C22_LateOfferIsError ==
    [][(/\ ctlPc = "handle"
        /\ ctlFrame.Opcode = PktSessionOffer
        /\ ctlPc' # "handle")
         => (/\ onceDone'
             /\ enqueued' = enqueued
             /\ session' = session)]_vars

\* C23: whenever the handshake or handleControl finishes handling a
\* SessionKeepAlive frame (opcode 3) while writeMessageCh is open, exactly
\* one KeepAliveRsp frame (opcode 4, empty payload) is appended to the
\* frames enqueued; no other step enqueues a KeepAliveRsp; and the frames
\* are taken for handling from the head of readControlCh, in arrival order.
C23_KeepAliveAnswered ==
    [][LET Rsp == [Control |-> TRUE, Opcode |-> 4, MessageData |-> <<>>]
           IsRsp(f) == f.Control /\ f.Opcode = 4
           hs == hsPc = "handle" /\ hsFrame.Opcode = 3 /\ hsPc' # "handle"
           ctl == ctlPc = "handle" /\ ctlFrame.Opcode = 3 /\ ctlPc' # "handle"
       IN  /\ ((hs \/ ctl) /\ ~chClosed.w) => enqueued' = Append(enqueued, Rsp)
           /\ SelectSeq(enqueued', IsRsp) # SelectSeq(enqueued, IsRsp) => (hs \/ ctl)
           /\ (hsPc # "handle" /\ hsPc' = "handle") => hsFrame' = Head(readControlCh)
           /\ (ctlPc # "handle" /\ ctlPc' = "handle") => ctlFrame' = Head(readControlCh)]_vars

\* C23 witness: a keep-alive was answered by the handshake and another by
\* handleControl after Dial returned.
C23_Witness ==
    /\ hsFirst = PktSessionKeepAlive /\ dialRet = "client"
    /\ ctlPc = "recv" /\ seen = <<>>
    /\ \E i, j \in 1..Len(enqueued) :
          /\ i < j
          /\ enqueued[i].Opcode = PktSessionKeepAliveRsp
          /\ IsAccept(enqueued[i + 1])
          /\ enqueued[j].Opcode = PktSessionKeepAliveRsp

\* C24: once the socket is closed, writeMessageCh has been closed and every
\* frame enqueued on it has been written to the socket.
C24_DrainBeforeSocketClose ==
    ~connOpen => (chClosed.w /\ sockOut = Wire(enqueued))

\* C25: when handleMessages takes from readMessageCh a frame whose DML
\* envelope does not decode, the client is closed by the time it stops.
C25_BadEnvelopeCloses ==
    [][(/\ dPc = "recv"
        /\ readMessageCh # <<>>
        /\ readMessageCh' = Tail(readMessageCh)
        /\ DMLUnmarshal(Head(readMessageCh).MessageData).res = "err")
         => onceDone']_vars

\* C26: once read or write has returned after an I/O error (or otherwise)
\* and is running its deferred Close, the ticker is stopped and the three
\* channels are closed; once the goroutine has ended, the socket is closed
\* too; whatever the other goroutines are doing.
C26_TransportFailureCloses ==
    /\ (rPc \in {"conn", "done"} \/ wPc \in {"conn", "done"})
          => (onceDone /\ tickerStopped /\ chClosed.c /\ chClosed.m /\ chClosed.w)
    /\ (rPc = "done" \/ wPc = "done") => ~connOpen

\* C26 witness: the writer's write failed part-way through a frame while
\* the socket was open and the writer ended first; the reader then ended on
\* the read error, frames of the peer still unread.
C26_Witness ==
    /\ wPc = "done" /\ rPc = "done"
    /\ nRead < env.in
    /\ connCloseCalls = 2
    /\ sockOut # <<>>
    /\ \A n \in 0..Len(enqueued) : sockOut # Wire(SubSeq(enqueued, 1, n))

\* C27: no step leaves more than 8 frames on readControlCh, readMessageCh
\* or writeMessageCh; a step changes a channel only by taking its head or
\* by appending one frame behind the frames it holds; and a channel that
\* holds 8 frames takes no frame until its head has been received.
C27_ChannelsBounded ==
    [][\A ch \in {<<readControlCh, readControlCh'>>, <<readMessageCh, readMessageCh'>>,
                  <<writeMessageCh, writeMessageCh'>>} :
          LET old == ch[1]
              new == ch[2]
          IN  /\ Len(old) <= 8 /\ Len(new) <= 8
              /\ \/ new = old
                 \/ old # <<>> /\ new = Tail(old)
                 \/ Len(old) < 8 /\ Len(new) = Len(old) + 1
                                 /\ SubSeq(new, 1, Len(old)) = old]_vars

\* C27 witness: readMessageCh holds 8 frames and the reader, with a further
\* frame of the peer to deliver, waits.
C27_Witness ==
    /\ Len(readMessageCh) = 8
    /\ rPc = "read" /\ nRead = 8 /\ nRead < env.in
    /\ ~chClosed.m /\ panicked = "none"

\* C28: a ClientKeepAlive frame is enqueued only after Dial has returned
\* the client, while connected is set and the ticker has not been stopped,
\* and the session_id it carries is the one the handshake stored.
C28_HeartbeatWhileConnected ==
    [][LET IsKeepAlive(f) == f.Control /\ f.Opcode = PktSessionKeepAlive
           sent == enqueued'[Len(enqueued')]
       IN  (Len(enqueued') > Len(enqueued) /\ IsKeepAlive(sent))
              => (/\ dialRet = "client" /\ connected
                  /\ ~tickerStopped
                  /\ U16(sent.MessageData, 1) = dialSession.ID)]_vars

\* C29: FrameReader.Read given a stream whose magic is not 0xF00D, or whose
\* body (the bytes its length field counts: short form, or long form after
\* 0x8000) is shorter than 5 bytes or ends early, returns an error and no
\* frame, so that read has nothing to send on readControlCh or readMessageCh.
C29_MalformedEnvelopeRejected ==
    (pOp = "frameBytes" /\ pPc = "out")
       => LET n == Len(pIn)
              long == n >= 4 /\ U16(pIn, 3) >= 32768
              hdr == IF long THEN 8 ELSE 4
              badMagic == n < 2 \/ U16(pIn, 1) # 61453
              shortBody == \/ n < hdr
                           \/ (IF long THEN U32(pIn, 5) ELSE U16(pIn, 3)) < 5
                           \/ n - hdr < 5
          IN  (badMagic \/ shortBody) => (pOut.err /\ DOMAIN pOut = {"err"})

\* C29 witness: a stream with the right magic and a complete body of 4
\* bytes was refused.
C29_Witness ==
    /\ pOp = "frameBytes" /\ pPc = "out" /\ pOut.err
    /\ pIn = LE16(61453) \o LE16(4) \o <<1, 3, 0, 0>>

\* C30: DMLMessage.Unmarshal given any byte string never faults; it returns
\* an error exactly when the string is shorter than 4 bytes or dml_length + 1
\* (computed without wrapping) exceeds its length; otherwise it returns the
\* bytes from index 4 up to dml_length + 1 as the body.
C30_DMLDecodeTotal ==
    (pOp = "dmlBytes" /\ pPc = "out")
       => LET n == Len(pIn)
              tooShort == n < 4
              pastEnd == n >= 4 /\ U16(pIn, 3) + 1 > n
          IN  /\ pOut.res # "panic"
              /\ pOut.res = "err" <=> (tooShort \/ pastEnd)
              /\ pOut.res = "ok" => pOut.msg.Packet = Slice(pIn, 4, U16(pIn, 3) + 1)

\* C21: DecodeTable given the bytes of k tables returns k tables in the
\* order of the file, each with the name of its target table and as many
\* records as its record count, every record holding exactly the fields of
\* the template with the values of the file; given bytes that end anywhere
\* but at the start of a table it returns an error.
C21_DecodeTable ==
    (pOp = "table" /\ pPc = "out")
       => LET ts == pIn.tables
              ks == { k \in 0..Len(ts) : pIn.stream = TablesBytes(SubSeq(ts, 1, k)) }
          IN  IF ks = {}
              THEN pOut.res = "err"
              ELSE /\ pOut.res = "ok"
                   /\ Len(pOut.tables) \in ks
                   /\ \A i \in 1..Len(pOut.tables) :
                         LET t == ts[i]
                             out == pOut.tables[i]
                         IN  /\ out.Name = t.Name
                             /\ Len(out.Records) = Len(t.Records)
                             /\ \A k \in 1..Len(t.Records) :
                                   /\ DOMAIN out.Records[k]
                                         = { t.Fields[f].Name : f \in 1..Len(t.Fields) }
                                   /\ \A f \in 1..Len(t.Fields) :
                                         out.Records[k][t.Fields[f].Name].v
                                            = IF t.Fields[f].Type \in {8, 9}
                                              THEN t.Records[k][f]
                                              ELSE LEValue(t.Records[k][f])

\* C21 witness: a file of two tables was decoded, the first the table
\* _TableList with one record whose Name is "Test", the second a table of
\* two records.
C21_Witness ==
    /\ pOp = "table" /\ pPc = "out" /\ pOut.res = "ok"
    /\ Len(pOut.tables) = 2
    /\ pOut.tables[1].Name = <<95, 84, 97, 98, 108, 101, 76, 105, 115, 116>>
    /\ Len(pOut.tables[1].Records) = 1
    /\ pOut.tables[1].Records[1][<<78, 97, 109, 101>>].v = <<84, 101, 115, 116>>
    /\ Len(pOut.tables[2].Records) = 2

\* C31: SessionOffer.UnmarshalBinary given an encoded offer whose message
\* field msg holds msg_len bytes returns, when msg_len > 256, the last 256
\* bytes of msg as Signature and the bytes before them as RawMessage, and,
\* when msg_len <= 256, an empty Signature and msg as RawMessage.
C31_OfferMessageSplit ==
    (pOp = "offer" /\ pPc = "out")
       => LET msg_len == U32(pMid, 15)
              msg == Slice(pMid, 18, 18 + msg_len)
          IN  /\ ~pOut.err
              /\ IF msg_len > 256
                 THEN /\ pOut.Signature = Slice(msg, msg_len - 256, msg_len)
                      /\ pOut.RawMessage = Slice(msg, 0, msg_len - 256)
                 ELSE /\ pOut.Signature = <<>>
                      /\ pOut.RawMessage = msg

\* C32: a decodeFunc first deserialises the body into a zero value of the
\* handler's type; when that succeeds it calls every middleware of the
\* router with the value, in registration order (a middleware of that type
\* or of type any runs), then the handler exactly once, last, and returns
\* nil; when it fails it returns the error and calls no middleware and no
\* handler.
C32_WrapperOrder ==
    (pOp = "wrapper" /\ pPc = "out")
       => LET calls == pOut.calls
              n == Len(pIn.middleware)
              value == [type |-> "T", body |-> pIn.d.Packet]
          IN  /\ calls[1].fn = "Unmarshal" /\ calls[1].msg.body = <<>>
              /\ IF pIn.decodes
                 THEN /\ ~pOut.err
                      /\ Len(calls) = n + 2
                      /\ \A i \in 1..n :
                            /\ calls[i + 1].fn = "middleware" /\ calls[i + 1].i = i
                            /\ calls[i + 1].msg = value
                            /\ pIn.middleware[i] \in {"T", "any"} => calls[i + 1].ran
                      /\ calls[n + 2].fn = "handler" /\ calls[n + 2].msg = value
                 ELSE /\ pOut.err
                      /\ Len(calls) = 1

\* C32 witness: a body that decodes was dispatched with two middleware
\* registered, one of another type and one of type any.
C32_Witness ==
    /\ pOp = "wrapper" /\ pPc = "out" /\ ~pOut.err
    /\ pIn.middleware = <<"U", "any">>
    /\ Len(pIn.d.Packet) = MaxPayload
    /\ Len(pOut.calls) = 4

\* C33: no goroutine ever sends on a closed channel: neither read (on
\* readControlCh or readMessageCh), nor the handshake, handleControl, the
\* heartbeat or a caller of WriteMessage (on writeMessageCh).
C33_NoSendOnClosed ==
    panicked \notin {"reader", "handshake", "control", "heartbeat", "user"}

\* C34: while the handshake waits for a control frame and the peer has
\* frames still to deliver, a well-formed SessionOffer after them, read is
\* never held up by application frames: readMessageCh has room for the next
\* one, so that read reaches the offer.
C34_HandshakeNotBlocked ==
    (/\ dialRet = "pending" /\ hsPc = "select" /\ readControlCh = <<>>
     /\ env.last = "offerA" /\ nRead < env.in - 1
     /\ rPc = "read" /\ connOpen /\ ~chClosed.m /\ panicked = "none")
       => Len(readMessageCh) < ChanCap

\* C35: when Dial has failed after the connection was established (handshake
\* cancelled, or connection closed before the handshake), the client has
\* released the connection: Close has run, which alone closes the socket and
\* the channels on which the reader and the writer end.
C35_FailedDialReleases ==
    dialRet \in {"cancelled", "closed"} => onceDone

\* The handlers registered for (service, order) by the registrations regs,
\* in registration order.
RegisteredFor(regs, service, order) ==
    LET IsFor(r) == r.service = service /\ r.order = order
        sel == SelectSeq(regs, IsFor)
    IN  [i \in 1..Len(sel) |-> sel[i].fn]

\* C36: routing is exact for every service and order in 0..255: the
\* registrations are made without fault, and the dispatch of a message, when
\* no handler of its key returns an error, calls exactly the handlers
\* registered for its key, once each and in registration order, without
\* fault.
C36_RoutingExact ==
    pOp = "route" =>
       /\ pPc = "wire" => ~pMid.fault
       /\ (pPc = "out"
           /\ \A i \in 1..Len(pIn.regs) : pIn.regs[i].fn # "bad")
              => /\ ~pOut.fault /\ ~pOut.err
                 /\ pOut.calls = RegisteredFor(pIn.regs, pIn.service, pIn.order)

\* C37: the envelope WriteMessage sends, written by the frame writer, read
\* back by the frame reader and decoded by DMLMessage.Unmarshal, decodes
\* without error to the same service_id and order_number and to a body equal
\* byte for byte to the body sent, with no trailer byte appended.
C37_EnvelopeEndToEnd ==
    (pOp = "envelope" /\ pPc = "out")
       => /\ pOut.res = "ok"
          /\ pOut.msg.ServiceID = pIn.ServiceID
          /\ pOut.msg.OrderNumber = pIn.OrderNumber
          /\ pOut.msg.Packet = pIn.Packet

====
